---- MODULE Spec2Model ----
(***************************************************************************)
(* Model of the chord-clip looper player (components/WavePlayer.tsx and    *)
(* its earlier practice-mode variant with Set A / Set B / nudge buttons).  *)
(*                                                                         *)
(* All times are integers in milliseconds.  Every handler is one action;   *)
(* the React effects that a handler's state change triggers (ref sync,     *)
(* loop-monitor effect, metronome effect) are settled inside the action.   *)
(* The playback engine and the regions plugin are the environment: they    *)
(* store what they are told and notify the component synchronously.        *)
(***************************************************************************)
EXTENDS Integers, Sequences, FiniteSets

\* ---------------------------------------------------------------- bounds
\* Length of the loaded track (what wavesurfer.getDuration() reports), ms.
TrackDuration == 1000
\* clientWidth of the view containers, px.
ViewportWidth == 200
\* Largest zoom level (px per second) the zoom-in button is pressed up to.
MaxZoom == 27
\* Granularity of the clock that runs down the autoscroll quiet timer, ms.
QuietStep == 3000
\* Length of the track on which Set A / Set B are exercised, ms (longer than
\* the default region).
LongDuration == 8000

\* ------------------------------------------------------ program constants
LOOP_TICK_MS == 50          \* setInterval(..., 50) of the loop monitor
MIN_REGION_MS == 100        \* the 0.1 s of Set A / Set B / nudge
DEFAULT_REGION_MS == 5000   \* the 5 s default region of Set A / Set B
NUDGE_FINE_MS == 50         \* the +-0.05 s buttons
NUDGE_COARSE_MS == 500      \* the +-0.5 s buttons
DEFAULT_ZOOM == 27
TAB_MIN_ZOOM == 50
AUTOSCROLL_QUIET_MS == 3000
DEFAULT_SLOTS_PER_BAR == 16
SLOTS_PER_BEAT == 4
DEFAULT_BPM == 120
DEFAULT_BEATS_PER_BAR == 4
MS_PER_MINUTE == 60000      \* (60 / bpm) * 1000

\* ------------------------------------------------------------ input sets
\* Positions a pointer gesture (drag, click-to-seek) can land on.
DragPositions == {0, 50, 200, 500, TrackDuration - 50, TrackDuration}
NudgeDeltas == {-NUDGE_COARSE_MS, -NUDGE_FINE_MS, NUDGE_FINE_MS, NUDGE_COARSE_MS}
RegionIds == {1, 2}
\* Values typed into the BPM, time-signature and offset inputs, and track
\* lengths used when exercising the bar grid.
BpmInputs == {-1, 0, 60, 70, 120}
BeatsPerBarInputs == {-1, 0, 1, 3, 4}
OffsetInputs == {-700, 0, 250, 2000}
GridDurations == {1500, 9999, 10000}
\* Track length, playhead positions and manual scroll offsets (px) used when
\* exercising the scroll synchronizer.
ScrollDurations == {8000}
PlayheadPositions == {8000}
ScrollOffsets == {10}

\* Drag positions and BPM texts used when exercising the timers.
TimerDragPositions == {100, 400}
TimerBpmRaw == {<<>>, <<60>>, <<70>>}

\* Ids of the saved items that are loaded (an item's audio has the item's
\* id), and the audio a fetch downloads.
SavedItemIds == {1, 2}
FetchedAudio == 3

\* Playhead positions at which Set A / Set B are pressed on the long track.
SetPositions == {0, 50, 2000, 3000, 5000, LongDuration - 50, LongDuration}

\* Positions the zoom slider is dragged to.
SliderValues == {0, 10, 250}

\* The three scrollable views: waveform container, chord (note) track, tab.
Views == {"wave", "note", "tab"}
\* (timestamp, stringIndex) keys of the tab store that are exercised.
TabKeys == {<<0, 0>>, <<0, 5>>}
\* Slot indexes (from 0) of the editor inputs that are typed into, and the
\* texts typed or pasted into them (a text is its sequence of characters).
TabSlots == {3, 5}
TabTexts == {<<>>, <<"1", "2">>, <<"x">>, <<"1", "a">>, <<" ", " ">>}
\* Track length and time-signature inputs used when exercising the tab store:
\* 1 beat per bar gives 4 slots, 4 gives 16, and an empty input falls back to
\* the default of 16.
TabDurations == {10000}
TabBeatsPerBarRaw == {<<>>, <<1>>, <<4>>}

VARIABLES
  time,                \* engine position, wavesurfer.getCurrentTime()
  lastSeek,            \* the wavesurfer.setTime call made by the last step
  duration,            \* React state `duration`
  isLoading,           \* React state `isLoading`
  isPlaying,           \* React state `isPlaying`
  regions,             \* regions held by the regions plugin
  currentRegion,       \* React state `currentRegion`
  currentRegionRef,    \* currentRegionRef.current
  loopInterval,        \* loopIntervalRef.current is a live timer
  loopTimers,          \* number of loop-monitor setInterval timers not cleared
  frameLoops,          \* number of autoscroll requestAnimationFrame loops not cancelled
  bpm, beatsPerBar, offset,
  pageBpm,             \* page state `bpm` (initialBpm): <<>> = null, <<v>> = v
  pageOffset,          \* page state `offset` (initialOffset), ms: <<>> = null
  audioUrl,            \* page state `audioUrl`: 0 = null (no player), else an audio id
  pendingLoad,         \* handleLoadSavedItem awaits the check of this item, 0 = none
  pendingFetch,        \* handleFetchAudio awaits the download
  showFetchBlock,      \* page state `showFetchBlock`
  pageNoteTrack,       \* page state `noteTrack`: key -> chord text
  notes,               \* React state `notes` of the player: key -> chord text
  currentSavedId,      \* page state `currentSavedId`: 0 = null
  savedItems,          \* the session store: saved item id -> stored record
  autoSaveTimeout,     \* autoSaveTimeoutRef's live timer: <<>> = none, else <<the
                       \* id and values its callback will write>>
  parentTabData,       \* what onTabChange last gave the parent: <<>> = nothing yet
  restoredTabData,     \* tabData of a player mounted with the parent's map
  unsavedEdit,         \* history: <<>>, or <<the id and values of the latest edit of
                       \* a saved item that is not in its stored record yet>>
  metronomeActive, metronomeWasActive,
  metronomeInterval,   \* period (ms) of the live metronome timer, 0 = none
  metronomeTimers,     \* number of metronome setInterval timers not cleared
  click,               \* the last step called playMetronomeClick()
  sinceUserStop,       \* history: what the tempo did since the user's last stop
  prevPeriod,          \* history: period of the activation the user stopped
                       \* last, 0 once the tempo has changed since
  error,               \* React state `error` is set
  scrollLeft,          \* scrollLeft of each view's container element
  pendingScroll,       \* scroll event queued for each view, and its origin
  isSyncingScrollRef,  \* isSyncingScrollRef.current
  pendingUnsync,       \* a setTimeout(..., 0) that resets the guard is queued
  zoomSyncTimeout,     \* the zoom effect's 50 ms syncScroll timeout is queued
  showGuitarTab,       \* React state `showGuitarTab`
  zoomLevel,           \* prop `zoomLevel` (0 = fit), px per second
  autoScroll,          \* React state `autoScroll`
  autoScrollTimeout,   \* ms left on autoScrollTimeoutRef's timer, 0 = none
  isTypingNote,        \* React state `isTypingNote`
  tabEditorOpen,       \* tabEditorOpen && editingBarTimestamp !== null
  tabCellFocused,      \* the focus is in an input of the tab editor
  tabData,             \* React state `tabData`: key -> array of cell texts
  lastTabEdit,         \* history: what the last step did to the tab store
  cleared,             \* history: the region was cleared and none created since
  clearedEnd,          \* history: end of the region that was cleared, 0 = none
  regionDropped,       \* history: a source change dropped a region, none created since
  isLooping,           \* React state `isLooping` of the player with a loop toggle
  noteTrackData,       \* item.noteTrack as stored: the entries in insertion order
  convertedNoteTrack,  \* what handleLoadSavedItem makes of noteTrackData
  converted,           \* what the player makes of convertedNoteTrack (initialNotes)
  migrated,            \* the stored note track has been converted
  cacheFiles,          \* public/audio-cache: for each cache key, the file it holds
  inFlight,            \* for each cache key, the yt-dlp downloads that have not closed
  cleanups,            \* cleanupOldCache() calls that have not run yet
  downloaded,          \* history: URLs of which a download has succeeded
  requests,            \* number of POST requests received
  requested,           \* URL of the last POST request
  response,            \* the last response sent
  loading,             \* page state `loading` of the page that polls a download job
  fetchError,          \* page state `error` of that page is set
  pollPhase,           \* "idle", "fetching" (request sent), "scheduled" (timer set), "stopped"
  attempts,            \* `attempts` of the running pollProgress call
  polls                \* progress requests sent by the running pollProgress call

vars == <<time, lastSeek, duration, isLoading, isPlaying, regions, currentRegion,
          currentRegionRef, loopInterval, loopTimers, frameLoops, bpm, beatsPerBar,
          offset,
          pageBpm, pageOffset, audioUrl, pendingLoad, pendingFetch, showFetchBlock,
          pageNoteTrack, notes, currentSavedId, savedItems, autoSaveTimeout, unsavedEdit,
          parentTabData, restoredTabData,
          metronomeActive, metronomeWasActive, metronomeInterval, metronomeTimers, click,
          sinceUserStop, prevPeriod, error, scrollLeft, pendingScroll,
          isSyncingScrollRef, pendingUnsync, zoomSyncTimeout, showGuitarTab,
          zoomLevel, autoScroll, autoScrollTimeout, isTypingNote, tabEditorOpen,
          tabCellFocused, tabData, lastTabEdit, cleared,
          clearedEnd, regionDropped, isLooping,
          noteTrackData, convertedNoteTrack, converted, migrated,
          cacheFiles, inFlight, cleanups, downloaded, requests, requested, response,
          loading, fetchError, pollPhase, attempts, polls>>

playbackVars == <<time, lastSeek, duration, isLoading, isPlaying>>
regionVars == <<regions, currentRegion, currentRegionRef, loopInterval, loopTimers, cleared, clearedEnd,
               regionDropped>>
tempoVars == <<bpm, beatsPerBar, offset, pageBpm, pageOffset>>
sessionVars == <<audioUrl, pendingLoad, pendingFetch, showFetchBlock, pageNoteTrack, notes,
                 currentSavedId, savedItems>>
autosaveVars == <<autoSaveTimeout, unsavedEdit>>
metronomeVars == <<metronomeActive, metronomeWasActive, metronomeInterval, metronomeTimers, click,
                   sinceUserStop, prevPeriod>>

scrollVars == <<scrollLeft, pendingScroll, isSyncingScrollRef, pendingUnsync,
                zoomSyncTimeout, showGuitarTab, zoomLevel, autoScroll,
                autoScrollTimeout, isTypingNote>>
editorVars == <<tabEditorOpen, tabCellFocused, tabData, lastTabEdit>>
uiVars == <<error, scrollVars, editorVars>>
\* A stored note track on its way through the two conversions.
migrationVars == <<noteTrackData, convertedNoteTrack, converted, migrated>>
\* The download route and its cache directory.
downloadVars == <<cacheFiles, inFlight, cleanups, downloaded, requests, requested, response>>
\* The page that polls the progress of a download job.
pollVars == <<loading, fetchError, pollPhase, attempts, polls>>
\* State that none of the handlers of the current player and page touches:
\* the loop switch of the player with a loop toggle, the note track
\* conversions taken on their own, the server's download route and the
\* page that polls a download job.
tabSyncVars == <<parentTabData, restoredTabData>>
otherVars == <<isLooping, migrationVars, downloadVars, pollVars, tabSyncVars>>

Max(a, b) == IF a >= b THEN a ELSE b
Min(a, b) == IF a <= b THEN a ELSE b

\* `null` of currentRegion
NoRegion == [id |-> 0, start |-> 0, end |-> 0]
Region(i, s, e) == [id |-> i, start |-> s, end |-> e]

\* wavesurfer.setTime(t): the engine keeps its position inside the track.
setTime(t) == Max(0, Min(t, duration))

\* The seek a step commands: who issued it and the requested position.
NoSeek == [by |-> "none", to |-> 0]
SeekTo(who, t) == [by |-> who, to |-> t]
\* Engine position after a step that commanded `cmd` at position t.
ApplySeek(t, cmd) == IF cmd = NoSeek THEN t ELSE setTime(cmd.to)

\* An id the plugin has not handed out to a region it still holds.
NewId(regs) == CHOOSE i \in RegionIds : \A r \in regs : r.id # i

\* `{}` of the chord and note-track stores: no key at all.
NoNotes == [k \in {} |-> ""]

\* ------------------------------------------------------------------ Init
\* Saved items of the session store that are loaded: item 1 has a tempo, an
\* offset and a chord under an old-format key (timestamp only); item 2 has
\* none of the optional fields.  A key is <<timestamp>> (old format) or
\* <<timestamp, segmentIndex>>.
SavedItem(i) ==
  IF i = 1
    THEN [bpm |-> <<90>>, offset |-> <<500>>, noteTrack |-> [k \in {<<0>>} |-> "Am"]]
    ELSE [bpm |-> <<>>, offset |-> <<>>, noteTrack |-> NoNotes]

\* The current player and page after construction.
InitPlayer ==
  /\ time = 0
  /\ lastSeek = NoSeek
  /\ duration = 0
  /\ isLoading = TRUE
  /\ isPlaying = FALSE
  /\ regions = {}
  /\ currentRegion = NoRegion
  /\ currentRegionRef = NoRegion
  /\ loopInterval = FALSE
  /\ loopTimers = 0
  /\ frameLoops = 0
  /\ bpm = DEFAULT_BPM
  /\ beatsPerBar = DEFAULT_BEATS_PER_BAR
  /\ offset = 0
  /\ pageBpm = <<>>
  /\ pageOffset = <<>>
  /\ audioUrl = FetchedAudio
  /\ pendingLoad = 0
  /\ pendingFetch = FALSE
  /\ showFetchBlock = FALSE
  /\ pageNoteTrack = NoNotes
  /\ notes = NoNotes
  /\ currentSavedId = 0
  /\ savedItems = [i \in SavedItemIds |-> SavedItem(i)]
  /\ autoSaveTimeout = <<>>
  /\ unsavedEdit = <<>>
  /\ parentTabData = <<>>
  /\ restoredTabData = <<>>
  /\ metronomeActive = FALSE
  /\ metronomeWasActive = FALSE
  /\ metronomeInterval = 0
  /\ metronomeTimers = 0
  /\ click = FALSE
  /\ sinceUserStop = "none"
  /\ prevPeriod = 0
  /\ error = FALSE
  /\ scrollLeft = [v \in Views |-> 0]
  /\ pendingScroll = [v \in Views |-> "none"]
  /\ isSyncingScrollRef = FALSE
  /\ pendingUnsync = FALSE
  /\ zoomSyncTimeout = FALSE
  /\ showGuitarTab = FALSE
  /\ zoomLevel = DEFAULT_ZOOM
  /\ autoScroll = TRUE
  /\ autoScrollTimeout = 0
  /\ isTypingNote = FALSE
  /\ tabEditorOpen = FALSE
  /\ tabCellFocused = FALSE
  /\ tabData = [k \in TabKeys |-> <<>>]
  /\ lastTabEdit = "none"
  /\ cleared = FALSE
  /\ clearedEnd = 0
  /\ regionDropped = FALSE

\* The player with a loop toggle after construction: useState(false).
InitLoopToggle == isLooping = FALSE

\* No stored note track has been read.
InitNoMigration ==
  /\ noteTrackData = <<>>
  /\ convertedNoteTrack = <<>>
  /\ converted = <<>>
  /\ migrated = FALSE

\* URLs that pass downloadRequestSchema, and a body that does not.
Urls == {1, 2}
InvalidUrl == 0
\* generateCacheKey(url): the md5 digest, different for the URLs requested.
generateCacheKey(u) == IF u = 1 THEN "c4ca" ELSE "c81e"
CacheKeys == {generateCacheKey(u) : u \in Urls}
\* A file of the cache directory: its extension ("none": no file) and
\* whether it is older than 24 hours.
NoFile == [ext |-> "none", old |-> FALSE]
NoResponse == [status |-> "none", url |-> InvalidUrl, cached |-> FALSE]

\* The server with an empty cache directory.
InitDownload ==
  /\ cacheFiles = [h \in CacheKeys |-> NoFile]
  /\ inFlight = [h \in CacheKeys |-> 0]
  /\ cleanups = 0
  /\ downloaded = {}
  /\ requests = 0
  /\ requested = InvalidUrl
  /\ response = NoResponse

\* The polling page after construction: useState(false), useState("").
InitPoll ==
  /\ loading = FALSE
  /\ fetchError = FALSE
  /\ pollPhase = "idle"
  /\ attempts = 0
  /\ polls = 0

Init == InitPlayer /\ InitLoopToggle /\ InitNoMigration /\ InitDownload /\ InitPoll

\* ------------------------------------------------- effects on region state
\* Autoscroll effect: its condition holds between its body, which sets
\* isAutoScrollingRef.current and starts the frame loop, and its cleanup.
isAutoScrollingRef ==
  isPlaying /\ autoScroll /\ zoomLevel # 0 /\ ~isTypingNote /\ duration # 0

\* Dependency array of the autoscroll effect.
AutoScrollDeps == <<isPlaying, autoScroll, zoomLevel, duration, isTypingNote>>

\* Live requestAnimationFrame loops after a render: when a dependency
\* changed, the cleanup of a run that got past the guards cancels its frame,
\* and the new run starts a loop if it gets past the guards.
FrameLoopsAfter(n, wasRunning, starts, depsChanged) ==
  IF ~depsChanged THEN n
  ELSE (IF wasRunning THEN n - 1 ELSE n) + (IF starts THEN 1 ELSE 0)

\* The autoscroll effect after the render a step causes.
SettleAutoScroll ==
  frameLoops' = FrameLoopsAfter(frameLoops, isAutoScrollingRef, isAutoScrollingRef',
                                AutoScrollDeps' # AutoScrollDeps)

\* Dependency array of the autosave effect (the URL field and the title and
\* notes fields are not followed).
AutosaveDeps == <<currentSavedId, audioUrl, pageBpm, pageOffset, pageNoteTrack>>

\* What the timer's callback passes to updateAudioItem.
AutosaveUpdate(id, b, o, track) == [id |-> id, bpm |-> b, offset |-> o, noteTrack |-> track]

\* The autosave effect re-run: the cleanup clears the pending timer, and a
\* new one is set unless there is no saved id or no audio.
AutosaveTimerAfter(pending, id, url, update) ==
  IF id = 0 \/ url = 0 THEN <<>> ELSE <<update>>

\* The autosave effect after the render a step causes; a change of the
\* tempo, offset or note track of the saved item on the page is an edit.
SettleAutosave ==
  /\ autoSaveTimeout' =
       IF AutosaveDeps' = AutosaveDeps THEN autoSaveTimeout
       ELSE AutosaveTimerAfter(autoSaveTimeout, currentSavedId', audioUrl',
                               AutosaveUpdate(currentSavedId', pageBpm', pageOffset',
                                              pageNoteTrack'))
  /\ unsavedEdit' =
       IF /\ currentSavedId # 0 /\ audioUrl # 0
          /\ currentSavedId' = currentSavedId /\ audioUrl' = audioUrl
          /\ pendingLoad' = pendingLoad
          /\ <<pageBpm', pageOffset', pageNoteTrack'>> # <<pageBpm, pageOffset, pageNoteTrack>>
         THEN <<AutosaveUpdate(currentSavedId, pageBpm', pageOffset', pageNoteTrack')>>
         ELSE unsavedEdit

\* Variant: the effect starts the interval without looking at the region.
LoopEffect_PlayingOnly(playing, region) == playing

\* Loop monitoring effect: the interval is cleared, then started again only
\* if playing and a region exists.
LoopEffect(playing, region) == playing /\ region # NoRegion

\* Dependency array of the loop monitoring effect: [isPlaying, currentRegion?.id].
LoopDeps(playing, region) == <<playing, region.id>>

\* Live loop-monitor timers after a render: when a dependency changed, the
\* cleanup and the head of the effect clear the timer the ref holds, and the
\* effect body may start one.
LoopTimersAfter(n, wasLive, starts, depsChanged) ==
  IF ~depsChanged THEN n
  ELSE (IF wasLive THEN n - 1 ELSE n) + (IF starts THEN 1 ELSE 0)

\* Variant: the ref is synced only when the region's id changes.
SettleRegionEffects_OnIdChange ==
  /\ currentRegionRef' = IF currentRegion'.id = currentRegion.id
                           THEN currentRegionRef ELSE currentRegion'
  /\ loopInterval' = LoopEffect(isPlaying', currentRegion')
  /\ loopTimers' = LoopTimersAfter(loopTimers, loopInterval, loopInterval',
                                   LoopDeps(isPlaying', currentRegion')
                                     # LoopDeps(isPlaying, currentRegion))

\* Effects that run after a render in which isPlaying / currentRegion may
\* have changed: the ref sync effect and the loop monitoring effect.
SettleRegionEffects ==
  /\ currentRegionRef' = currentRegion'
  /\ loopInterval' = LoopEffect(isPlaying', currentRegion')
  /\ loopTimers' = LoopTimersAfter(loopTimers, loopInterval, loopInterval',
                                   LoopDeps(isPlaying', currentRegion')
                                     # LoopDeps(isPlaying, currentRegion))

\* --------------------------------------------------- regions plugin events
\* Variant: region-created leaves the other regions in place.
RemoveOthers_KeepAll(regs, new) == regs

\* region-created: remove every other region the plugin holds.
RemoveOthers(regs, new) == {r \in regs : r.id = new.id}

\* Variant: region-created only snaps when the position is past the end.
AutoSeek_OnlyPastEnd(t, new) ==
  IF t > new.end THEN [by |-> "auto", to |-> new.start]
  ELSE [by |-> "none", to |-> 0]

\* region-created: auto-seek to the region start if the position is outside.
AutoSeek(t, new) ==
  IF t < new.start \/ t > new.end THEN SeekTo("auto", new.start) ELSE NoSeek

\* The plugin saves `new` and emits region-created; the removals emit
\* region-removed (setCurrentRegion(null)) before setCurrentRegion(new).
RegionCreated(new) ==
  /\ regions' = RemoveOthers(regions \cup {new}, new)
  /\ currentRegion' = new
  /\ lastSeek' = AutoSeek(time, new)
  /\ time' = ApplySeek(time, lastSeek')

\* region.setOptions / edge drag: the plugin stores the new bounds and emits
\* region-updated.
RegionUpdated(new) ==
  /\ regions' = {IF r.id = new.id THEN new ELSE r : r \in regions}
  /\ currentRegion' = new

\* ------------------------------------------------------- engine & playback
Ready(d) ==
  /\ audioUrl # 0
  /\ isLoading
  /\ duration' = d
  /\ isLoading' = FALSE
  /\ lastSeek' = NoSeek
  /\ click' = FALSE
  /\ UNCHANGED <<time, isPlaying, regionVars, tempoVars, metronomeActive,
                 metronomeWasActive, metronomeInterval, metronomeTimers, sinceUserStop, prevPeriod,
                 uiVars>>
  /\ UNCHANGED sessionVars
  /\ UNCHANGED otherVars
  /\ SettleAutoScroll
  /\ SettleAutosave

PlayPause ==
  /\ ~isLoading
  /\ isPlaying' = ~isPlaying
  /\ lastSeek' = NoSeek
  /\ UNCHANGED <<time, duration, isLoading, regions, currentRegion>>
  /\ SettleRegionEffects
  /\ cleared' = (cleared /\ currentRegion' = NoRegion)
  /\ clearedEnd' = (IF currentRegion' = NoRegion THEN clearedEnd ELSE 0)
  /\ regionDropped' = (regionDropped /\ currentRegion' = NoRegion)
  /\ UNCHANGED <<tempoVars, metronomeVars, uiVars>>
  /\ UNCHANGED sessionVars
  /\ UNCHANGED otherVars
  /\ SettleAutoScroll
  /\ SettleAutosave

\* Click on the waveform (interact: true).
Seek(p) ==
  /\ ~isLoading
  /\ lastSeek' = SeekTo("user", p)
  /\ time' = ApplySeek(time, lastSeek')
  /\ UNCHANGED <<duration, isLoading, isPlaying, regionVars, tempoVars, metronomeVars, uiVars>>
  /\ UNCHANGED sessionVars
  /\ UNCHANGED otherVars
  /\ SettleAutoScroll
  /\ SettleAutosave

\* The engine plays on for one polling period.
Advance ==
  /\ isPlaying
  /\ time < duration
  /\ time' = Min(time + LOOP_TICK_MS, duration)
  /\ lastSeek' = NoSeek
  /\ UNCHANGED <<duration, isLoading, isPlaying, regionVars, tempoVars, metronomeVars, uiVars>>
  /\ UNCHANGED sessionVars
  /\ UNCHANGED otherVars
  /\ SettleAutoScroll
  /\ SettleAutosave

\* Variant: the tick compares with > instead of >=.
LoopTickSeek_StrictlyPast(t, ref) ==
  IF ref = NoRegion THEN NoSeek
  ELSE IF t > ref.end THEN SeekTo("loop", ref.start) ELSE NoSeek

\* Body of the loop monitor's interval callback.
LoopTickSeek(t, ref) ==
  IF ref = NoRegion THEN NoSeek
  ELSE IF t >= ref.end THEN SeekTo("loop", ref.start) ELSE NoSeek

LoopTick ==
  /\ loopInterval
  /\ lastSeek' = LoopTickSeek(time, currentRegionRef)
  /\ time' = ApplySeek(time, lastSeek')
  /\ UNCHANGED <<duration, isLoading, isPlaying, regionVars, tempoVars, metronomeVars, uiVars>>
  /\ UNCHANGED sessionVars
  /\ UNCHANGED otherVars
  /\ SettleAutoScroll
  /\ SettleAutosave

\* Variant: finish seeks back but does not call play() again.
FinishPlaying_AlwaysStops(ref) == FALSE

\* wavesurfer "finish": restart from the region start, or stop.
FinishSeek(ref) == IF ref # NoRegion THEN SeekTo("finish", ref.start) ELSE NoSeek
FinishPlaying(ref) == ref # NoRegion

Finish ==
  /\ isPlaying
  /\ ~isLoading
  /\ time >= duration
  /\ lastSeek' = FinishSeek(currentRegionRef)
  /\ time' = ApplySeek(time, lastSeek')
  /\ isPlaying' = FinishPlaying(currentRegionRef)
  /\ UNCHANGED <<duration, isLoading, regions, currentRegion>>
  /\ SettleRegionEffects
  /\ cleared' = (cleared /\ currentRegion' = NoRegion)
  /\ clearedEnd' = (IF currentRegion' = NoRegion THEN clearedEnd ELSE 0)
  /\ regionDropped' = (regionDropped /\ currentRegion' = NoRegion)
  /\ UNCHANGED <<tempoVars, metronomeVars, uiVars>>
  /\ UNCHANGED sessionVars
  /\ UNCHANGED otherVars
  /\ SettleAutoScroll
  /\ SettleAutosave

\* --------------------------------------------------------- pointer gestures
\* enableDragSelection: a drag over the waveform saves a new region.
DragCreate(s, e) ==
  /\ ~isLoading
  /\ 0 <= s /\ s < e /\ e <= duration
  /\ RegionCreated(Region(NewId(regions), s, e))
  /\ UNCHANGED <<duration, isLoading, isPlaying>>
  /\ SettleRegionEffects
  /\ cleared' = (cleared /\ currentRegion' = NoRegion)
  /\ clearedEnd' = (IF currentRegion' = NoRegion THEN clearedEnd ELSE 0)
  /\ regionDropped' = (regionDropped /\ currentRegion' = NoRegion)
  /\ UNCHANGED <<tempoVars, metronomeVars, uiVars>>
  /\ UNCHANGED sessionVars
  /\ UNCHANGED otherVars
  /\ SettleAutoScroll
  /\ SettleAutosave

\* Dragging an edge of the region (drag: false keeps resize enabled).
DragResize(s, e) ==
  /\ ~isLoading
  /\ currentRegion # NoRegion
  /\ currentRegion \in regions
  /\ s = currentRegion.start \/ e = currentRegion.end
  /\ <<s, e>> # <<currentRegion.start, currentRegion.end>>
  /\ 0 <= s /\ s < e /\ e <= duration
  /\ RegionUpdated(Region(currentRegion.id, s, e))
  /\ lastSeek' = NoSeek
  /\ UNCHANGED <<time, duration, isLoading, isPlaying>>
  /\ SettleRegionEffects
  /\ cleared' = (cleared /\ currentRegion' = NoRegion)
  /\ clearedEnd' = (IF currentRegion' = NoRegion THEN clearedEnd ELSE 0)
  /\ regionDropped' = (regionDropped /\ currentRegion' = NoRegion)
  /\ UNCHANGED <<tempoVars, metronomeVars, uiVars>>
  /\ UNCHANGED sessionVars
  /\ UNCHANGED otherVars
  /\ SettleAutoScroll
  /\ SettleAutosave

\* mousedown inside the region body: region.remove(), then region-removed.
RegionMouseDown ==
  /\ ~isLoading
  /\ currentRegion \in regions
  /\ regions' = regions \ {currentRegion}
  /\ currentRegion' = NoRegion
  /\ lastSeek' = NoSeek
  /\ UNCHANGED <<time, duration, isLoading, isPlaying>>
  /\ SettleRegionEffects
  /\ cleared' = (cleared /\ currentRegion' = NoRegion)
  /\ clearedEnd' = (IF currentRegion' = NoRegion THEN clearedEnd ELSE 0)
  /\ regionDropped' = (regionDropped /\ currentRegion' = NoRegion)
  /\ UNCHANGED <<tempoVars, metronomeVars, uiVars>>
  /\ UNCHANGED sessionVars
  /\ UNCHANGED otherVars
  /\ SettleAutoScroll
  /\ SettleAutosave

\* Variant: the plugin's regions are cleared but the region state is kept.
ClearedRegion_Kept(region) == region

\* handleClearRegion: setCurrentRegion(null)
ClearedRegion(region) == NoRegion

handleClearRegion ==
  /\ ~isLoading
  /\ regions' = {}
  /\ currentRegion' = ClearedRegion(currentRegion)
  /\ lastSeek' = NoSeek
  /\ UNCHANGED <<time, duration, isLoading, isPlaying>>
  /\ SettleRegionEffects
  /\ cleared' = TRUE
  /\ clearedEnd' = (IF currentRegion # NoRegion THEN currentRegion.end ELSE clearedEnd)
  /\ regionDropped' = regionDropped
  /\ UNCHANGED <<tempoVars, metronomeVars, uiVars>>
  /\ UNCHANGED sessionVars
  /\ UNCHANGED otherVars
  /\ SettleAutoScroll
  /\ SettleAutosave

\* ------------------------------------------- Set A / Set B / nudge buttons
\* const clampedTime = Math.max(0, Math.min(currentTime, duration))
clampedTime == Max(0, Min(time, duration))

\* Variant: Set A never moves the end.
SetAUpdate_KeepEnd(t, r) == Region(r.id, t, r.end)

\* Bounds handleSetA passes to region.setOptions for an existing region.
SetAUpdate(t, r) == Region(r.id, t, Max(t + MIN_REGION_MS, r.end))
\* Bounds handleSetA passes to addRegion when there is no region.
SetACreate(t) == <<t, Min(t + DEFAULT_REGION_MS, duration)>>

handleSetA ==
  /\ ~isLoading
  /\ IF currentRegion # NoRegion
       THEN IF \E r \in regions : r.id = currentRegion.id
              THEN /\ RegionUpdated(SetAUpdate(clampedTime, currentRegion))
                   /\ lastSeek' = NoSeek
                   /\ time' = time
              ELSE /\ lastSeek' = NoSeek
                   /\ UNCHANGED <<regions, currentRegion, time>>
       ELSE RegionCreated(Region(NewId(regions), SetACreate(clampedTime)[1],
                                 SetACreate(clampedTime)[2]))
  /\ UNCHANGED <<duration, isLoading, isPlaying>>
  /\ SettleRegionEffects
  /\ cleared' = (cleared /\ currentRegion' = NoRegion)
  /\ clearedEnd' = (IF currentRegion' = NoRegion THEN clearedEnd ELSE 0)
  /\ regionDropped' = (regionDropped /\ currentRegion' = NoRegion)
  /\ UNCHANGED <<tempoVars, metronomeVars, uiVars>>
  /\ UNCHANGED sessionVars
  /\ UNCHANGED otherVars
  /\ SettleAutoScroll
  /\ SettleAutosave

\* Bounds handleSetB passes to region.setOptions for an existing region.
SetBUpdate(t, r) == Region(r.id, Min(r.start, t - MIN_REGION_MS), t)
\* Bounds handleSetB passes to addRegion when there is no region.
SetBCreate(t) == <<Max(0, t - DEFAULT_REGION_MS), t>>

handleSetB ==
  /\ ~isLoading
  /\ IF currentRegion # NoRegion
       THEN IF \E r \in regions : r.id = currentRegion.id
              THEN /\ RegionUpdated(SetBUpdate(clampedTime, currentRegion))
                   /\ lastSeek' = NoSeek
                   /\ time' = time
              ELSE /\ lastSeek' = NoSeek
                   /\ UNCHANGED <<regions, currentRegion, time>>
       ELSE RegionCreated(Region(NewId(regions), SetBCreate(clampedTime)[1],
                                 SetBCreate(clampedTime)[2]))
  /\ UNCHANGED <<duration, isLoading, isPlaying>>
  /\ SettleRegionEffects
  /\ cleared' = (cleared /\ currentRegion' = NoRegion)
  /\ clearedEnd' = (IF currentRegion' = NoRegion THEN clearedEnd ELSE 0)
  /\ regionDropped' = (regionDropped /\ currentRegion' = NoRegion)
  /\ UNCHANGED <<tempoVars, metronomeVars, uiVars>>
  /\ UNCHANGED sessionVars
  /\ UNCHANGED otherVars
  /\ SettleAutoScroll
  /\ SettleAutosave

\* const newStart = Math.max(0, Math.min(start + delta, end - 0.1))
NudgedStart(r, delta) == Max(0, Min(r.start + delta, r.end - MIN_REGION_MS))

handleNudgeStart(delta) ==
  /\ ~isLoading
  /\ currentRegion # NoRegion
  /\ IF \E r \in regions : r.id = currentRegion.id
       THEN RegionUpdated([currentRegion EXCEPT !.start = NudgedStart(currentRegion, delta)])
       ELSE UNCHANGED <<regions, currentRegion>>
  /\ lastSeek' = NoSeek
  /\ UNCHANGED <<time, duration, isLoading, isPlaying>>
  /\ SettleRegionEffects
  /\ cleared' = (cleared /\ currentRegion' = NoRegion)
  /\ clearedEnd' = (IF currentRegion' = NoRegion THEN clearedEnd ELSE 0)
  /\ regionDropped' = (regionDropped /\ currentRegion' = NoRegion)
  /\ UNCHANGED <<tempoVars, metronomeVars, uiVars>>
  /\ UNCHANGED sessionVars
  /\ UNCHANGED otherVars
  /\ SettleAutoScroll
  /\ SettleAutosave

\* const newEnd = Math.max(start + 0.1, Math.min(end + delta, duration))
NudgedEnd(r, delta) == Max(r.start + MIN_REGION_MS, Min(r.end + delta, duration))

handleNudgeEnd(delta) ==
  /\ ~isLoading
  /\ currentRegion # NoRegion
  /\ IF \E r \in regions : r.id = currentRegion.id
       THEN RegionUpdated([currentRegion EXCEPT !.end = NudgedEnd(currentRegion, delta)])
       ELSE UNCHANGED <<regions, currentRegion>>
  /\ lastSeek' = NoSeek
  /\ UNCHANGED <<time, duration, isLoading, isPlaying>>
  /\ SettleRegionEffects
  /\ cleared' = (cleared /\ currentRegion' = NoRegion)
  /\ clearedEnd' = (IF currentRegion' = NoRegion THEN clearedEnd ELSE 0)
  /\ regionDropped' = (regionDropped /\ currentRegion' = NoRegion)
  /\ UNCHANGED <<tempoVars, metronomeVars, uiVars>>
  /\ UNCHANGED sessionVars
  /\ UNCHANGED otherVars
  /\ SettleAutoScroll
  /\ SettleAutosave

\* ---------------------------------------- Set A / Set B on a longer track
NextSetAB ==
  \/ Ready(LongDuration)
  \/ \E p \in SetPositions : Seek(p)
  \/ handleSetA
  \/ handleSetB
  \/ handleClearRegion

SpecSetAB == Init /\ [][NextSetAB]_vars

\* ------------------------------------------ playback and region behaviour
Next ==
  \/ Ready(TrackDuration)
  \/ PlayPause
  \/ \E p \in DragPositions : Seek(p)
  \/ Advance
  \/ LoopTick
  \/ Finish
  \/ \E s, e \in DragPositions : DragCreate(s, e)
  \/ \E s, e \in DragPositions : DragResize(s, e)
  \/ RegionMouseDown
  \/ handleClearRegion
  \/ \E d \in NudgeDeltas : handleNudgeStart(d)
  \/ \E d \in NudgeDeltas : handleNudgeEnd(d)
  \/ handleSetA
  \/ handleSetB

Spec == Init /\ [][Next]_vars

\* ================================================================== tempo
\* Raw text of a number input: <<>> is an empty (unparsable) field.
BpmRaw == {<<>>} \cup {<<v>> : v \in BpmInputs}
BeatsPerBarRaw == {<<>>} \cup {<<v>> : v \in BeatsPerBarInputs}
OffsetRaw == {<<>>} \cup {<<v>> : v \in OffsetInputs}

\* BPM input onChange: parseInt(raw), NaN stored as 0.
ParseBpm(raw) == IF raw = <<>> THEN 0 ELSE raw[1]
\* BPM input onChange: onBpmChange(null) for NaN, onBpmChange(next) otherwise.
ReportedBpm(raw) == raw
\* beatsPerBar input onChange: parseInt(raw) || 0.
ParseBeatsPerBar(raw) == IF raw = <<>> THEN 0 ELSE raw[1]
\* Offset input onChange: NaN stored as 0, otherwise snapped to the nearest
\* 0.1 s, Math.round(next * 10) / 10 (halves round up).
ParseOffset(raw) == IF raw = <<>> THEN 0 ELSE ((raw[1] + 50) \div 100) * 100
\* Offset input onChange: onOffsetChange(null) for NaN, the snapped value
\* otherwise.
ReportedOffset(raw) == IF raw = <<>> THEN <<>> ELSE <<ParseOffset(raw)>>

\* Variant: the period is computed per second instead of per minute.
IntervalMs_PerSecond(b) == 1000 \div b

\* const intervalMs = (60 / bpm) * 1000, as the whole milliseconds a timer
\* is armed with.
IntervalMs(b) == MS_PER_MINUTE \div b

\* -------------------------------------------------------------- metronome
MetroState == [bpm |-> bpm, active |-> metronomeActive, was |-> metronomeWasActive,
               iv |-> metronomeInterval, timers |-> metronomeTimers,
               click |-> FALSE]

\* Variant: the handle is dropped without clearInterval.
Cleared_HandleOnly(m) == m.timers

\* if (metronomeIntervalRef.current) clearInterval(metronomeIntervalRef.current):
\* the timers left live.
Cleared(m) == IF m.iv # 0 THEN m.timers - 1 ELSE m.timers

\* Variant: a user stop leaves the "was active" intent set.
ToggleMetronome_KeepsIntent(m) ==
  IF m.active
    THEN [m EXCEPT !.iv = 0, !.timers = Cleared(m), !.active = FALSE, !.was = TRUE]
    ELSE IF m.bpm > 0
           THEN [m EXCEPT !.click = TRUE, !.iv = IntervalMs(m.bpm),
                          !.timers = m.timers + 1,
                          !.active = TRUE, !.was = FALSE]
           ELSE m

\* toggleMetronome
ToggleMetronome(m) ==
  IF m.active
    THEN [m EXCEPT !.iv = 0, !.timers = Cleared(m), !.active = FALSE, !.was = FALSE]
    ELSE IF m.bpm > 0
           THEN [m EXCEPT !.click = TRUE, !.iv = IntervalMs(m.bpm),
                          !.timers = m.timers + 1,
                          !.active = TRUE, !.was = FALSE]
           ELSE m

\* Variant: an invalid tempo stops the metronome without remembering it.
MetronomeEffect_Forgets(m) ==
  IF m.active /\ m.iv # 0
    THEN IF m.bpm > 0
           THEN [m EXCEPT !.iv = IntervalMs(m.bpm), !.timers = Cleared(m) + 1]
           ELSE [m EXCEPT !.iv = 0, !.timers = Cleared(m), !.active = FALSE,
                          !.was = FALSE]
    ELSE IF ~m.active /\ m.was /\ m.bpm > 0
           THEN [m EXCEPT !.click = TRUE, !.iv = IntervalMs(m.bpm),
                          !.timers = m.timers + 1,
                          !.active = TRUE, !.was = FALSE]
           ELSE m

\* Effect "update metronome interval when BPM changes while playing".
MetronomeEffect(m) ==
  IF m.active /\ m.iv # 0
    THEN IF m.bpm > 0
           THEN [m EXCEPT !.iv = IntervalMs(m.bpm), !.timers = Cleared(m) + 1]
           ELSE [m EXCEPT !.iv = 0, !.timers = Cleared(m), !.active = FALSE,
                          !.was = TRUE]
    ELSE IF ~m.active /\ m.was /\ m.bpm > 0
           THEN [m EXCEPT !.click = TRUE, !.iv = IntervalMs(m.bpm),
                          !.timers = m.timers + 1,
                          !.active = TRUE, !.was = FALSE]
           ELSE m

\* Dependency array of the effect: [bpm, metronomeActive, metronomeWasActive].
MetronomeDeps(m) == <<m.bpm, m.active, m.was>>

\* The effect re-runs after every render in which a dependency changed.
RECURSIVE SettleMetronome(_, _)
SettleMetronome(deps, m) ==
  IF MetronomeDeps(m) = deps THEN m
  ELSE SettleMetronome(MetronomeDeps(m), MetronomeEffect(m))

StoreMetronome(m) ==
  /\ metronomeActive' = m.active
  /\ metronomeWasActive' = m.was
  /\ metronomeInterval' = m.iv
  /\ metronomeTimers' = m.timers
  /\ click' = m.click

\* The timing controls are rendered once a track is loaded.
TimingControlsShown == duration > 0 /\ ~isLoading /\ ~error

BpmInput(raw) ==
  /\ TimingControlsShown
  /\ bpm' = ParseBpm(raw)
  /\ pageBpm' = ReportedBpm(raw)
  /\ StoreMetronome(SettleMetronome(MetronomeDeps(MetroState),
                                    [MetroState EXCEPT !.bpm = bpm']))
  /\ sinceUserStop' = IF sinceUserStop = "none" THEN "none"
                      ELSE IF bpm' <= 0 THEN "invalid"
                      ELSE IF sinceUserStop = "invalid" THEN "revalid"
                      ELSE sinceUserStop
  /\ prevPeriod' = IF bpm' = bpm THEN prevPeriod ELSE 0
  /\ UNCHANGED <<beatsPerBar, offset, pageOffset, playbackVars, regionVars, uiVars>>
  /\ UNCHANGED sessionVars
  /\ UNCHANGED otherVars
  /\ SettleAutoScroll
  /\ SettleAutosave

BeatsPerBarInput(raw) ==
  /\ TimingControlsShown
  /\ beatsPerBar' = ParseBeatsPerBar(raw)
  /\ click' = FALSE
  /\ UNCHANGED <<bpm, offset, pageBpm, pageOffset, metronomeActive, metronomeWasActive, metronomeInterval, metronomeTimers,
                 sinceUserStop, prevPeriod, playbackVars, regionVars, uiVars>>
  /\ UNCHANGED sessionVars
  /\ UNCHANGED otherVars
  /\ SettleAutoScroll
  /\ SettleAutosave

OffsetInput(raw) ==
  /\ TimingControlsShown
  /\ offset' = ParseOffset(raw)
  /\ pageOffset' = ReportedOffset(raw)
  /\ click' = FALSE
  /\ UNCHANGED <<bpm, beatsPerBar, pageBpm, metronomeActive, metronomeWasActive, metronomeInterval, metronomeTimers,
                 sinceUserStop, prevPeriod, playbackVars, regionVars, uiVars>>
  /\ UNCHANGED sessionVars
  /\ UNCHANGED otherVars
  /\ SettleAutoScroll
  /\ SettleAutosave

\* The metronome button is disabled while bpm <= 0.
toggleMetronome ==
  /\ TimingControlsShown
  /\ bpm > 0
  /\ StoreMetronome(SettleMetronome(MetronomeDeps(MetroState),
                                    ToggleMetronome(MetroState)))
  /\ sinceUserStop' = IF metronomeActive THEN "stopped" ELSE "none"
  /\ prevPeriod' = IF metronomeActive THEN metronomeInterval ELSE prevPeriod
  /\ UNCHANGED <<tempoVars, playbackVars, regionVars, uiVars>>
  /\ UNCHANGED sessionVars
  /\ UNCHANGED otherVars
  /\ SettleAutoScroll
  /\ SettleAutosave

\* The metronome timer's callback.
MetronomeTick ==
  /\ metronomeInterval # 0
  /\ click' = TRUE
  /\ UNCHANGED <<metronomeActive, metronomeWasActive, metronomeInterval, metronomeTimers,
                 sinceUserStop, prevPeriod, tempoVars, playbackVars, regionVars, uiVars>>
  /\ UNCHANGED sessionVars
  /\ UNCHANGED otherVars
  /\ SettleAutoScroll
  /\ SettleAutosave

\* --------------------------------------------------------------- bar grid
\* Bar times are kept exact as multiples of 1/bpm ms: barTime = scaled / bpm.
\* secondsPerBar = (60 / bpm) * beatsPerBar
BarStepScaled == MS_PER_MINUTE * beatsPerBar

\* Math.round(barTime * 1000) / 1000, in ms.
RoundMs(scaled) == (2 * scaled + bpm) \div (2 * bpm)

\* Variant: the guard does not look at duration.
GridDegenerate_IgnoresDuration == bpm <= 0 \/ beatsPerBar <= 0

\* if (!duration || bpm <= 0 || beatsPerBar <= 0) return [];
GridDegenerate == duration = 0 \/ bpm <= 0 \/ beatsPerBar <= 0

\* Variant: the stepping rule excludes a bar exactly at the track end.
InTrack_Exclusive(scaled) == scaled < duration * bpm

\* while (barTime <= duration)
InTrack(scaled) == scaled <= duration * bpm

RECURSIVE BarLoop(_, _)
BarLoop(scaled, timestamps) ==
  IF InTrack(scaled)
    THEN BarLoop(scaled + BarStepScaled,
                 IF scaled >= 0 THEN Append(timestamps, RoundMs(scaled))
                 ELSE timestamps)
    ELSE timestamps

getNoteTimestamps == IF GridDegenerate THEN <<>> ELSE BarLoop(offset * bpm, <<>>)

\* ------------------------------------------------ tempo-related behaviour
\* ------------------------------------------------- source change and errors
\* Variant: the region-removed notification leaves the region state alone.
OnRegionRemoved_Ignored(region) == region

\* regions.on("region-removed"): setCurrentRegion(null)
OnRegionRemoved(region) == NoRegion

\* The audioUrl prop changes: the init effect's cleanup destroys the engine
\* and its regions plugin, the effect runs again, resets the playback state
\* and starts loading.  The plugin removes the regions it holds when it is
\* destroyed and notifies region-removed for each; the effect itself does
\* not touch the region state.  The chord track and the tab unmount while
\* loading.
SourceChanged ==
  /\ isLoading' = TRUE
  /\ error' = FALSE
  /\ isPlaying' = FALSE
  /\ time' = 0
  /\ duration' = 0
  /\ lastSeek' = NoSeek
  /\ regions' = {}
  /\ currentRegion' = (IF regions # {} THEN OnRegionRemoved(currentRegion)
                       ELSE currentRegion)
  /\ SettleRegionEffects
  /\ cleared' = (cleared /\ currentRegion' = NoRegion)
  /\ clearedEnd' = (IF currentRegion' = NoRegion THEN clearedEnd ELSE 0)
  /\ regionDropped' = ((regionDropped \/ regions # {}) /\ currentRegion' = NoRegion)
  /\ scrollLeft' = [v \in Views |-> IF v = "wave" THEN scrollLeft[v] ELSE 0]
  /\ pendingScroll' = [v \in Views |-> IF v = "wave" THEN pendingScroll[v] ELSE "none"]
  /\ click' = FALSE
  /\ UNCHANGED <<isSyncingScrollRef, pendingUnsync, zoomSyncTimeout, showGuitarTab,
                 zoomLevel, autoScroll, autoScrollTimeout, isTypingNote, editorVars,
                 tempoVars, metronomeActive, metronomeWasActive, metronomeInterval, metronomeTimers,
                 sinceUserStop, prevPeriod>>
  /\ UNCHANGED otherVars
  /\ SettleAutoScroll
  /\ SettleAutosave

\* The audio the page switches to when it leaves audio `a`.
OtherAudio(a) == IF a = FetchedAudio THEN 1 ELSE FetchedAudio

\* The page hands the mounted player another audioUrl.
NewSource ==
  /\ audioUrl # 0
  /\ audioUrl' = OtherAudio(audioUrl)
  /\ UNCHANGED <<pendingLoad, pendingFetch, showFetchBlock, pageNoteTrack, notes,
                 currentSavedId, savedItems>>
  /\ SourceChanged

\* wavesurfer "error" while the source is loading: setError, setIsLoading(false).
LoadError ==
  /\ audioUrl # 0
  /\ isLoading
  /\ error' = TRUE
  /\ isLoading' = FALSE
  /\ lastSeek' = NoSeek
  /\ click' = FALSE
  /\ UNCHANGED <<time, duration, isPlaying, regionVars, tempoVars, metronomeActive,
                 metronomeWasActive, metronomeInterval, metronomeTimers, sinceUserStop, prevPeriod,
                 scrollVars, editorVars>>
  /\ UNCHANGED sessionVars
  /\ UNCHANGED otherVars
  /\ SettleAutoScroll
  /\ SettleAutosave

NextTempo ==
  \/ \E d \in GridDurations : Ready(d)
  \/ \E raw \in BpmRaw : BpmInput(raw)
  \/ \E raw \in BeatsPerBarRaw : BeatsPerBarInput(raw)
  \/ \E raw \in OffsetRaw : OffsetInput(raw)
  \/ toggleMetronome
  \/ MetronomeTick
  \/ NewSource
  \/ LoadError

SpecTempo == Init /\ [][NextTempo]_vars

\* ------------------------------------------- playback across source changes
NextSource ==
  \/ Ready(TrackDuration)
  \/ NewSource
  \/ PlayPause
  \/ \E p \in DragPositions : Seek(p)
  \/ Advance
  \/ LoopTick
  \/ Finish
  \/ \E s, e \in DragPositions : DragCreate(s, e)
  \/ handleClearRegion

SpecSource == Init /\ [][NextSource]_vars

\* ====================================================== scroll synchronizer
\* The chord track is rendered when duration > 0 && !isLoading && !error,
\* the tab additionally when showGuitarTab; the waveform container always.
Mounted(v) ==
  CASE v = "wave" -> TRUE
    [] v = "note" -> duration > 0 /\ ~isLoading /\ ~error
    [] v = "tab" -> duration > 0 /\ ~isLoading /\ ~error /\ showGuitarTab

\* Content is duration * zoomLevel px wide (100% in fit mode); the browser
\* keeps scrollLeft within [0, contentWidth - clientWidth].
MaxScrollLeft(z) == Max(0, (duration * z) \div 1000 - ViewportWidth)
ClampScroll(x, z) == Max(0, Min(x, MaxScrollLeft(z)))

\* Assigning `x` to scrollLeft of the views in `targets`: the value is
\* clamped, and a view whose offset changes gets a scroll event queued.
WriteScroll(targets, x, origin) ==
  /\ scrollLeft' = [v \in Views |->
       IF v \in targets THEN ClampScroll(x, zoomLevel) ELSE scrollLeft[v]]
  /\ pendingScroll' = [v \in Views |->
       IF v \in targets /\ ClampScroll(x, zoomLevel) # scrollLeft[v]
         THEN (IF pendingScroll[v] = "user" THEN "user" ELSE origin)
         ELSE pendingScroll[v]]

\* The user scrolls view v to offset x (wheel, touch or scrollbar drag).
UserScroll(v, x) ==
  /\ Mounted(v)
  /\ x <= MaxScrollLeft(zoomLevel)
  /\ x # scrollLeft[v]
  /\ scrollLeft' = [scrollLeft EXCEPT ![v] = x]
  /\ pendingScroll' = [pendingScroll EXCEPT ![v] = "user"]
  /\ UNCHANGED <<isSyncingScrollRef, pendingUnsync, zoomSyncTimeout, showGuitarTab,
                 zoomLevel, autoScroll, autoScrollTimeout, isTypingNote>>
  /\ UNCHANGED <<error, editorVars, playbackVars, regionVars, tempoVars, metronomeVars>>
  /\ UNCHANGED sessionVars
  /\ UNCHANGED otherVars
  /\ SettleAutoScroll
  /\ SettleAutosave

\* Views each onScroll handler copies its offset to.
SyncTargets(v) ==
  CASE v = "wave" -> {"note"}
    [] v = "note" -> {"wave", "tab"}
    [] v = "tab" -> {"wave", "note"}

\* handleManualScroll
handleManualScroll ==
  IF isAutoScrollingRef
    THEN UNCHANGED <<autoScroll, autoScrollTimeout>>
    ELSE /\ autoScroll' = FALSE
         /\ autoScrollTimeout' = AUTOSCROLL_QUIET_MS

\* The browser delivers the queued scroll event of view v to its onScroll.
ScrollEvent(v) ==
  /\ pendingScroll[v] # "none"
  /\ Mounted(v)
  /\ IF isAutoScrollingRef \/ isSyncingScrollRef
       THEN /\ scrollLeft' = scrollLeft
            /\ pendingScroll' = [pendingScroll EXCEPT ![v] = "none"]
            /\ UNCHANGED <<isSyncingScrollRef, pendingUnsync, autoScroll, autoScrollTimeout>>
       ELSE /\ isSyncingScrollRef' = TRUE
            /\ scrollLeft' = [w \in Views |->
                 IF w \in SyncTargets(v) /\ Mounted(w) THEN scrollLeft[v] ELSE scrollLeft[w]]
            /\ pendingScroll' = [w \in Views |->
                 IF w = v THEN "none"
                 ELSE IF w \in SyncTargets(v) /\ Mounted(w) /\ scrollLeft[w] # scrollLeft[v]
                   THEN (IF pendingScroll[w] = "user" THEN "user" ELSE "propagated")
                   ELSE pendingScroll[w]]
            /\ handleManualScroll
            /\ pendingUnsync' = TRUE
  /\ UNCHANGED <<zoomSyncTimeout, showGuitarTab, zoomLevel, isTypingNote>>
  /\ UNCHANGED <<error, editorVars, playbackVars, regionVars, tempoVars, metronomeVars>>
  /\ UNCHANGED sessionVars
  /\ UNCHANGED otherVars
  /\ SettleAutoScroll
  /\ SettleAutosave

\* setTimeout(() => { isSyncingScrollRef.current = false }, 0)
UnsyncTimeout ==
  /\ pendingUnsync
  /\ pendingUnsync' = FALSE
  /\ isSyncingScrollRef' = FALSE
  /\ UNCHANGED <<scrollLeft, pendingScroll, zoomSyncTimeout, showGuitarTab, zoomLevel,
                 autoScroll, autoScrollTimeout, isTypingNote>>
  /\ UNCHANGED <<error, editorVars, playbackVars, regionVars, tempoVars, metronomeVars>>
  /\ UNCHANGED sessionVars
  /\ UNCHANGED otherVars
  /\ SettleAutoScroll
  /\ SettleAutosave

\* The quiet timer armed by handleManualScroll runs down; when it expires
\* its callback calls setAutoScroll(true).
QuietTimePasses ==
  /\ autoScrollTimeout > 0
  /\ autoScrollTimeout' = Max(0, autoScrollTimeout - QuietStep)
  /\ autoScroll' = IF autoScrollTimeout' = 0 THEN TRUE ELSE autoScroll
  /\ UNCHANGED <<scrollLeft, pendingScroll, isSyncingScrollRef, pendingUnsync,
                 zoomSyncTimeout, showGuitarTab, zoomLevel, isTypingNote>>
  /\ UNCHANGED <<error, editorVars, playbackVars, regionVars, tempoVars, metronomeVars>>
  /\ UNCHANGED sessionVars
  /\ UNCHANGED otherVars
  /\ SettleAutoScroll
  /\ SettleAutosave

\* const targetScrollLeft = Math.max(0, playheadPosition - containerWidth / 2)
TargetScrollLeft == Max(0, (time * zoomLevel) \div 1000 - ViewportWidth \div 2)

\* One frame of the autoscroll loop (updateScroll).
AutoScrollFrame ==
  /\ isAutoScrollingRef
  /\ Mounted("note")
  /\ WriteScroll({v \in Views : Mounted(v)}, TargetScrollLeft, "sync")
  /\ isSyncingScrollRef' = FALSE
  /\ UNCHANGED <<pendingUnsync, zoomSyncTimeout, showGuitarTab, zoomLevel, autoScroll,
                 autoScrollTimeout, isTypingNote>>
  /\ UNCHANGED <<error, editorVars, playbackVars, regionVars, tempoVars, metronomeVars>>
  /\ UNCHANGED sessionVars
  /\ UNCHANGED otherVars
  /\ SettleAutoScroll
  /\ SettleAutosave

\* ------------------------------------------------------------------- zoom
\* Variant: the effect leaves the zoom level alone.
SettleZoom_Unchanged(z, tabShown) == z

\* "Adjust zoom when tab is shown/hidden" effect: with the tab shown a zoom
\* level below 50 is raised to 50.
SettleZoom(z, tabShown) == IF tabShown /\ z < TAB_MIN_ZOOM THEN TAB_MIN_ZOOM ELSE z

\* A render with zoom level z requested: the effects settle the level, the
\* "keep containers synced" effect arms its timeout when the level changed,
\* and the browser keeps every offset inside the new content width.
ApplyZoom(z, tabShown) ==
  /\ zoomLevel' = SettleZoom(z, tabShown)
  /\ zoomSyncTimeout' = IF z # zoomLevel \/ zoomLevel' # zoomLevel
                          THEN Mounted("note") ELSE zoomSyncTimeout

\* newZoom of handleZoomIn: Math.min(500, Math.round(zoomLevel * 1.3))
ZoomedIn(z) == IF z = 0 THEN 5 ELSE Min(500, (26 * z + 10) \div 20)
\* Variant: zooming out never falls back to fit.
ZoomedOut_NoFit(z) == (20 * z + 13) \div 26

\* newZoom of handleZoomOut: Math.round(zoomLevel / 1.3), below 5 back to fit
ZoomedOut(z) == IF (20 * z + 13) \div 26 < 5 THEN 0 ELSE (20 * z + 13) \div 26

handleZoomIn ==
  /\ ~isLoading
  /\ ApplyZoom(ZoomedIn(zoomLevel), showGuitarTab)
  /\ scrollLeft' = [v \in Views |-> ClampScroll(scrollLeft[v], zoomLevel')]
  /\ UNCHANGED <<pendingScroll, isSyncingScrollRef, pendingUnsync, showGuitarTab,
                 autoScroll, autoScrollTimeout, isTypingNote>>
  /\ UNCHANGED <<error, editorVars, playbackVars, regionVars, tempoVars, metronomeVars>>
  /\ UNCHANGED sessionVars
  /\ UNCHANGED otherVars
  /\ SettleAutoScroll
  /\ SettleAutosave

\* Zoom-in presses that stay at or below a given level.
handleZoomInUpTo(maxZoom) ==
  /\ ZoomedIn(zoomLevel) <= maxZoom
  /\ handleZoomIn

handleZoomOut ==
  /\ ~isLoading
  /\ zoomLevel # 0
  /\ ApplyZoom(ZoomedOut(zoomLevel), showGuitarTab)
  /\ scrollLeft' = [v \in Views |-> ClampScroll(scrollLeft[v], zoomLevel')]
  /\ UNCHANGED <<pendingScroll, isSyncingScrollRef, pendingUnsync, showGuitarTab,
                 autoScroll, autoScrollTimeout, isTypingNote>>
  /\ UNCHANGED <<error, editorVars, playbackVars, regionVars, tempoVars, metronomeVars>>
  /\ UNCHANGED sessionVars
  /\ UNCHANGED otherVars
  /\ SettleAutoScroll
  /\ SettleAutosave

\* Zoom slider of the earlier player (min 0, max 500, step 10): onChange
\* calls handleZoomChange(parseInt(value)).
handleZoomChange(newZoom) ==
  /\ ~isLoading
  /\ newZoom # zoomLevel
  /\ ApplyZoom(newZoom, showGuitarTab)
  /\ scrollLeft' = [v \in Views |-> ClampScroll(scrollLeft[v], zoomLevel')]
  /\ UNCHANGED <<pendingScroll, isSyncingScrollRef, pendingUnsync, showGuitarTab,
                 autoScroll, autoScrollTimeout, isTypingNote>>
  /\ UNCHANGED <<error, editorVars, playbackVars, regionVars, tempoVars, metronomeVars>>
  /\ UNCHANGED sessionVars
  /\ UNCHANGED otherVars
  /\ SettleAutoScroll
  /\ SettleAutosave

\* syncScroll, 50 ms after a zoom change: the waveform's offset is written
\* to the chord track and the tab.
ZoomSync ==
  /\ zoomSyncTimeout
  /\ zoomSyncTimeout' = FALSE
  /\ IF Mounted("note")
       THEN WriteScroll({v \in {"note", "tab"} : Mounted(v)}, scrollLeft["wave"], "sync")
       ELSE UNCHANGED <<scrollLeft, pendingScroll>>
  /\ UNCHANGED <<isSyncingScrollRef, pendingUnsync, showGuitarTab, zoomLevel,
                 autoScroll, autoScrollTimeout, isTypingNote>>
  /\ UNCHANGED <<error, editorVars, playbackVars, regionVars, tempoVars, metronomeVars>>
  /\ UNCHANGED sessionVars
  /\ UNCHANGED otherVars
  /\ SettleAutoScroll
  /\ SettleAutosave

\* "Show Tab" / "Hide Tab" button in the chord track header. The tab's
\* container is created with scrollLeft 0 and dropped when hidden.
ToggleGuitarTab ==
  /\ Mounted("note")
  /\ showGuitarTab' = ~showGuitarTab
  /\ ApplyZoom(zoomLevel, showGuitarTab')
  /\ scrollLeft' = [v \in Views |->
       IF v = "tab" THEN 0 ELSE ClampScroll(scrollLeft[v], zoomLevel')]
  /\ pendingScroll' = [pendingScroll EXCEPT !["tab"] = "none"]
  /\ UNCHANGED <<isSyncingScrollRef, pendingUnsync, autoScroll, autoScrollTimeout,
                 isTypingNote>>
  /\ UNCHANGED <<error, editorVars, playbackVars, regionVars, tempoVars, metronomeVars>>
  /\ UNCHANGED sessionVars
  /\ UNCHANGED otherVars
  /\ SettleAutoScroll
  /\ SettleAutosave

\* ---------------------------------------------------- focus in annotations
\* Chord input onFocus: setIsTypingNote(true).
ChordFocus ==
  /\ Mounted("note")
  /\ getNoteTimestamps # <<>>
  /\ ~isTypingNote
  /\ isTypingNote' = TRUE
  /\ tabCellFocused' = FALSE
  /\ UNCHANGED <<scrollLeft, pendingScroll, isSyncingScrollRef, pendingUnsync,
                 zoomSyncTimeout, showGuitarTab, zoomLevel, autoScroll, autoScrollTimeout>>
  /\ UNCHANGED <<error, tabEditorOpen, tabData, lastTabEdit,
                 playbackVars, regionVars, tempoVars, metronomeVars>>
  /\ UNCHANGED sessionVars
  /\ UNCHANGED otherVars
  /\ SettleAutoScroll
  /\ SettleAutosave

\* Chord input onBlur: setIsTypingNote(false).
ChordBlur ==
  /\ isTypingNote
  /\ isTypingNote' = FALSE
  /\ UNCHANGED <<scrollLeft, pendingScroll, isSyncingScrollRef, pendingUnsync,
                 zoomSyncTimeout, showGuitarTab, zoomLevel, autoScroll, autoScrollTimeout>>
  /\ UNCHANGED <<error, editorVars, playbackVars, regionVars, tempoVars, metronomeVars>>
  /\ UNCHANGED sessionVars
  /\ UNCHANGED otherVars
  /\ SettleAutoScroll
  /\ SettleAutosave

\* Click on a bar of the tab: setEditingBarTimestamp, setTabEditorOpen(true).
\* The click takes the focus away from a chord input.
OpenTabEditor ==
  /\ Mounted("tab")
  /\ getNoteTimestamps # <<>>
  /\ ~tabEditorOpen
  /\ tabEditorOpen' = TRUE
  /\ isTypingNote' = FALSE
  /\ lastTabEdit' = "none"
  /\ UNCHANGED <<scrollLeft, pendingScroll, isSyncingScrollRef, pendingUnsync,
                 zoomSyncTimeout, showGuitarTab, zoomLevel, autoScroll, autoScrollTimeout>>
  /\ UNCHANGED <<error, tabCellFocused, tabData,
                 playbackVars, regionVars, tempoVars, metronomeVars>>
  /\ UNCHANGED sessionVars
  /\ UNCHANGED otherVars
  /\ SettleAutoScroll
  /\ SettleAutosave

\* Close button of the editor: setTabEditorOpen(false),
\* setEditingBarTimestamp(null); its inputs are unmounted.
CloseTabEditor ==
  /\ tabEditorOpen
  /\ tabEditorOpen' = FALSE
  /\ tabCellFocused' = FALSE
  /\ lastTabEdit' = "none"
  /\ UNCHANGED <<error, scrollVars, tabData, playbackVars, regionVars, tempoVars,
                 metronomeVars>>
  /\ UNCHANGED sessionVars
  /\ UNCHANGED otherVars
  /\ SettleAutoScroll
  /\ SettleAutosave

\* An input of the tab editor takes the focus; its onFocus only places the
\* cursor.
FocusTabCell ==
  /\ tabEditorOpen
  /\ ~tabCellFocused
  /\ tabCellFocused' = TRUE
  /\ isTypingNote' = FALSE
  /\ lastTabEdit' = "none"
  /\ UNCHANGED <<scrollLeft, pendingScroll, isSyncingScrollRef, pendingUnsync,
                 zoomSyncTimeout, showGuitarTab, zoomLevel, autoScroll, autoScrollTimeout>>
  /\ UNCHANGED <<error, tabEditorOpen, tabData,
                 playbackVars, regionVars, tempoVars, metronomeVars>>
  /\ UNCHANGED sessionVars
  /\ UNCHANGED otherVars
  /\ SettleAutoScroll
  /\ SettleAutosave

BlurTabCell ==
  /\ tabCellFocused
  /\ tabCellFocused' = FALSE
  /\ lastTabEdit' = "none"
  /\ UNCHANGED <<error, scrollVars, tabEditorOpen, tabData, playbackVars, regionVars,
                 tempoVars, metronomeVars>>
  /\ UNCHANGED sessionVars
  /\ UNCHANGED otherVars
  /\ SettleAutoScroll
  /\ SettleAutosave

\* ----------------------------------------------- scroll-related behaviour
NextScroll ==
  \/ \E d \in ScrollDurations : Ready(d)
  \/ PlayPause
  \/ \E p \in PlayheadPositions : Seek(p)
  \/ \E v \in Views, x \in ScrollOffsets : UserScroll(v, x)
  \/ \E v \in Views : ScrollEvent(v)
  \/ UnsyncTimeout
  \/ QuietTimePasses
  \/ AutoScrollFrame
  \/ handleZoomInUpTo(MaxZoom)
  \/ handleZoomOut
  \/ ZoomSync
  \/ ToggleGuitarTab
  \/ ChordFocus
  \/ ChordBlur
  \/ OpenTabEditor
  \/ FocusTabCell

SpecScroll == Init /\ [][NextScroll]_vars

\* ------------------------------------------------------------ zoom levels
NextZoom ==
  \/ \E d \in ScrollDurations : Ready(d)
  \/ handleZoomIn
  \/ handleZoomOut
  \/ \E z \in SliderValues : handleZoomChange(z)
  \/ ToggleGuitarTab
  \/ ZoomSync

SpecZoom == Init /\ [][NextZoom]_vars

\* ================================================================ tab store
\* Variant: the number of slots follows the tempo as well.
getSlotsPerBar_ByTempo ==
  IF beatsPerBar > 0 THEN (beatsPerBar * SLOTS_PER_BEAT * bpm) \div DEFAULT_BPM
  ELSE DEFAULT_SLOTS_PER_BAR

\* getSlotsPerBar
getSlotsPerBar ==
  IF beatsPerBar > 0 THEN beatsPerBar * SLOTS_PER_BEAT ELSE DEFAULT_SLOTS_PER_BAR

Digits == {"0", "1", "2", "3", "4", "5", "6", "7", "8", "9"}

\* Variant: any single character is let through as well.
ValidTabText_AnyChar(value) ==
  Len(value) <= 1 \/ \A i \in 1..Len(value) : value[i] \in Digits

\* value === '' || /^[0-9]+$/.test(value) || value === ' '
ValidTabText(value) ==
  \/ value = <<>>
  \/ (Len(value) >= 1 /\ \A i \in 1..Len(value) : value[i] \in Digits)
  \/ value = <<" ">>

\* Variant: the rebuilt array starts empty and keeps no old value.
RebuildNotes_Fresh(existingNotes, slotsPerBar) == [i \in 1..slotsPerBar |-> <<>>]

\* setTabNote: Array(slotsPerBar).fill(''), then the existing values copied
\* to their indices where they fit.
RebuildNotes(existingNotes, slotsPerBar) ==
  [i \in 1..slotsPerBar |-> IF i <= Len(existingNotes) THEN existingNotes[i] ELSE <<>>]

\* Variant: the value is written into the stored array as it is, which is
\* extended up to the written index only.
setTabNote_InPlace(prev, key, noteIndex, value) ==
  [prev EXCEPT ![key] =
     [i \in 1..(IF Len(prev[key]) > noteIndex THEN Len(prev[key]) ELSE noteIndex + 1) |->
        IF i = noteIndex + 1 THEN value
        ELSE IF i <= Len(prev[key]) THEN prev[key][i] ELSE <<>>]]

\* setTabNote: newNotes[noteIndex] = value (noteIndex counts from 0).
setTabNote(prev, key, noteIndex, value) ==
  [prev EXCEPT ![key] =
     [RebuildNotes(prev[key], getSlotsPerBar) EXCEPT ![noteIndex + 1] = value]]

\* Text shown in an editor input: notes[slotIndex] || ''
CellText(key, slotIndex) ==
  IF slotIndex + 1 <= Len(tabData[key]) THEN tabData[key][slotIndex + 1] ELSE <<>>

\* What a write does to the array under `key`, for the history variable.
WriteKind(key) ==
  IF tabData[key] # <<>> /\ Len(tabData[key]) < getSlotsPerBar THEN "grown" ELSE "stored"

\* onChange of an editor input: the text is validated, then setTabNote.
TabCellChange(key, slotIndex, value) ==
  /\ tabEditorOpen
  /\ tabCellFocused
  /\ slotIndex < getSlotsPerBar
  /\ value # CellText(key, slotIndex)
  /\ IF ValidTabText(value)
       THEN /\ tabData' = setTabNote(tabData, key, slotIndex, value)
            /\ lastTabEdit' = WriteKind(key)
       ELSE /\ tabData' = tabData
            /\ lastTabEdit' = "refused"
  /\ UNCHANGED <<error, scrollVars, tabEditorOpen, tabCellFocused, playbackVars,
                 regionVars, tempoVars, metronomeVars>>
  /\ UNCHANGED sessionVars
  /\ UNCHANGED otherVars
  /\ SettleAutoScroll
  /\ SettleAutosave

\* onKeyDown with the space key: preventDefault, setTabNote(..., ' ').
TabCellSpaceKey(key, slotIndex) ==
  /\ tabEditorOpen
  /\ tabCellFocused
  /\ slotIndex < getSlotsPerBar
  /\ tabData' = setTabNote(tabData, key, slotIndex, <<" ">>)
  /\ lastTabEdit' = WriteKind(key)
  /\ UNCHANGED <<error, scrollVars, tabEditorOpen, tabCellFocused, playbackVars,
                 regionVars, tempoVars, metronomeVars>>
  /\ UNCHANGED sessionVars
  /\ UNCHANGED otherVars
  /\ SettleAutoScroll
  /\ SettleAutosave

NextTab ==
  \/ \E d \in TabDurations : Ready(d)
  \/ \E raw \in TabBeatsPerBarRaw : BeatsPerBarInput(raw)
  \/ ToggleGuitarTab
  \/ OpenTabEditor
  \/ CloseTabEditor
  \/ FocusTabCell
  \/ BlurTabCell
  \/ \E k \in TabKeys, i \in TabSlots, t \in TabTexts : TabCellChange(k, i, t)
  \/ \E k \in TabKeys, i \in TabSlots : TabCellSpaceKey(k, i)

SpecTab == Init /\ [][NextTab]_vars

\* --------------------------------------------------------------- sessions
\* Keys and texts typed into the chord track.
NoteKeys == {<<0, 0>>}
ChordTexts == {"G"}
\* Texts typed into the tempo and offset fields while sessions are switched.
SessionBpmRaw == {<<70>>}
SessionOffsetRaw == {<<250>>}
SessionBeatsPerBarRaw == {<<3>>}

\* Variant: keys are copied as they are.
ConvertKey_Copied(k) == k

\* A key that is a plain number becomes `${key}-0`.
ConvertKey(k) == IF Len(k) = 1 THEN <<k[1], 0>> ELSE k
\* Old-format note tracks are converted key by key (the inputs hold no two
\* keys that convert to the same key).
ConvertNotes(track) ==
  [k \in {ConvertKey(j) : j \in DOMAIN track} |->
     track[CHOOSE j \in DOMAIN track : ConvertKey(j) = k]]

\* useState(initialBpm ?? 120), useState(initialOffset ?? 0)
InitialBpm(p) == IF p = <<>> THEN DEFAULT_BPM ELSE p[1]
InitialOffset(p) == IF p = <<>> THEN 0 ELSE p[1]

\* Sync effects: if (initialBpm != null) setBpm(initialBpm), and the same for
\* the offset; a null prop leaves the player's value as it is.
SyncedBpm(p, b) == IF p # <<>> THEN p[1] ELSE b
SyncedOffset(p, o) == IF p # <<>> THEN p[1] ELSE o

\* The player's sync effects after the page replaced bpm, offset and
\* noteTrack, and the metronome effect for the new bpm.
SyncFromPage ==
  /\ bpm' = SyncedBpm(pageBpm', bpm)
  /\ offset' = SyncedOffset(pageOffset', offset)
  /\ notes' = ConvertNotes(pageNoteTrack')
  /\ StoreMetronome(SettleMetronome(MetronomeDeps(MetroState),
                                    [MetroState EXCEPT !.bpm = bpm']))
  /\ sinceUserStop' = IF sinceUserStop = "none" THEN "none"
                      ELSE IF bpm' <= 0 THEN "invalid"
                      ELSE IF sinceUserStop = "invalid" THEN "revalid"
                      ELSE sinceUserStop
  /\ prevPeriod' = IF bpm' = bpm THEN prevPeriod ELSE 0

\* The player is unmounted ({audioUrl && <WavePlayer/>}): the effect cleanups
\* clear the loop monitor, the metronome timer and the frame loop, the
\* engine is destroyed, and the component state is gone; a later mount starts
\* from the initial state.  zoomLevel is page state and stays.  The 3 s
\* timeout is not cleared, but its callback only reaches the old instance.
PlayerUnmounted ==
  /\ time' = 0 /\ lastSeek' = NoSeek /\ duration' = 0
  /\ isLoading' = TRUE /\ isPlaying' = FALSE /\ error' = FALSE
  /\ regions' = {} /\ currentRegion' = NoRegion /\ currentRegionRef' = NoRegion
  /\ loopInterval' = FALSE
  /\ loopTimers' = (IF loopInterval THEN loopTimers - 1 ELSE loopTimers)
  /\ cleared' = FALSE /\ clearedEnd' = 0 /\ regionDropped' = FALSE
  /\ bpm' = DEFAULT_BPM /\ beatsPerBar' = DEFAULT_BEATS_PER_BAR /\ offset' = 0
  /\ metronomeActive' = FALSE /\ metronomeWasActive' = FALSE
  /\ metronomeInterval' = 0
  /\ metronomeTimers' = (IF metronomeInterval # 0 THEN metronomeTimers - 1
                         ELSE metronomeTimers)
  /\ click' = FALSE /\ sinceUserStop' = "none" /\ prevPeriod' = 0
  /\ scrollLeft' = [v \in Views |-> 0]
  /\ pendingScroll' = [v \in Views |-> "none"]
  /\ isSyncingScrollRef' = FALSE /\ pendingUnsync' = FALSE
  /\ zoomSyncTimeout' = FALSE /\ showGuitarTab' = FALSE
  /\ autoScroll' = TRUE /\ autoScrollTimeout' = 0 /\ isTypingNote' = FALSE
  /\ tabEditorOpen' = FALSE /\ tabCellFocused' = FALSE
  /\ tabData' = [k \in TabKeys |-> <<>>]
  /\ lastTabEdit' = "none"
  /\ notes' = NoNotes
  /\ UNCHANGED zoomLevel
  /\ UNCHANGED otherVars
  /\ SettleAutoScroll
  /\ SettleAutosave

\* The player mounts: its state is initialised from the props.
PlayerMounted ==
  /\ bpm' = InitialBpm(pageBpm')
  /\ offset' = InitialOffset(pageOffset')
  /\ notes' = ConvertNotes(pageNoteTrack')
  /\ UNCHANGED <<beatsPerBar, playbackVars, regionVars, metronomeVars, uiVars>>
  /\ UNCHANGED otherVars
  /\ SettleAutoScroll
  /\ SettleAutosave

\* Nothing of the player changes.
PlayerKept ==
  /\ UNCHANGED <<bpm, beatsPerBar, offset, notes, playbackVars, regionVars,
                 metronomeVars, uiVars>>
  /\ UNCHANGED otherVars
  /\ SettleAutoScroll
  /\ SettleAutosave

\* setAudioUrl(a): the player mounts, reloads, or stays as it is.
SetAudioUrl(a) ==
  /\ audioUrl' = a
  /\ IF audioUrl = 0 THEN PlayerMounted
     ELSE IF a # audioUrl
       THEN SourceChanged /\ notes' = notes
       ELSE PlayerKept

\* Chord input onChange: handleNoteChange, onNotesChange(updated).
handleNoteChange(key, value) ==
  /\ Mounted("note")
  /\ notes' = [k \in DOMAIN notes \cup {key} |-> IF k = key THEN value ELSE notes[k]]
  /\ notes' # notes
  /\ pageNoteTrack' = notes'
  /\ click' = FALSE
  /\ UNCHANGED <<audioUrl, pendingLoad, pendingFetch, showFetchBlock, tempoVars,
                 currentSavedId, savedItems, metronomeActive, metronomeWasActive, metronomeInterval,
                 metronomeTimers, sinceUserStop, prevPeriod, playbackVars,
                 regionVars, uiVars>>
  /\ UNCHANGED otherVars
  /\ SettleAutoScroll
  /\ SettleAutosave

\* handleLoadSavedItem up to its first await: the page takes the item's
\* tempo, offset and note track, and the mounted player syncs from the props.
handleLoadSavedItem(i) ==
  /\ pendingLoad = 0
  /\ ~pendingFetch
  /\ pendingLoad' = i
  /\ pageBpm' = savedItems[i].bpm
  /\ pageOffset' = savedItems[i].offset
  /\ pageNoteTrack' = ConvertNotes(savedItems[i].noteTrack)
  /\ currentSavedId' = i
  /\ UNCHANGED savedItems
  /\ IF audioUrl # 0
       THEN SyncFromPage
       ELSE UNCHANGED <<bpm, offset, notes, metronomeVars>>
  /\ UNCHANGED <<audioUrl, pendingFetch, showFetchBlock, beatsPerBar,
                 playbackVars, regionVars, uiVars>>
  /\ UNCHANGED otherVars
  /\ SettleAutoScroll
  /\ SettleAutosave

\* The item's audio file exists, cannot be verified, or was fetched again:
\* setAudioUrl, setShowFetchBlock(false).
LoadVerified ==
  /\ pendingLoad # 0
  /\ pendingLoad' = 0
  /\ showFetchBlock' = FALSE
  /\ UNCHANGED <<pendingFetch, pageBpm, pageOffset, pageNoteTrack, currentSavedId,
                 savedItems>>
  /\ SetAudioUrl(pendingLoad)

\* The audio file is gone and fetching it again fails: the error is shown
\* with the fetch block, the audioUrl stays.
LoadRefetchFailed ==
  /\ pendingLoad # 0
  /\ pendingLoad' = 0
  /\ showFetchBlock' = TRUE
  /\ UNCHANGED <<audioUrl, pendingFetch, pageBpm, pageOffset, pageNoteTrack,
                 currentSavedId, savedItems>>
  /\ PlayerKept

\* handleNewSong
handleNewSong ==
  /\ audioUrl' = 0
  /\ pageBpm' = <<>>
  /\ pageOffset' = <<>>
  /\ pageNoteTrack' = NoNotes
  /\ showFetchBlock' = TRUE
  /\ currentSavedId' = 0
  /\ UNCHANGED <<pendingLoad, pendingFetch, savedItems>>
  /\ PlayerUnmounted

\* handleFetchAudio up to its await: setAudioUrl(null).
handleFetchAudio ==
  /\ showFetchBlock
  /\ ~pendingFetch
  /\ pendingLoad = 0
  /\ audioUrl' = 0
  /\ pendingFetch' = TRUE
  /\ currentSavedId' = 0
  /\ UNCHANGED <<pendingLoad, showFetchBlock, pageBpm, pageOffset, pageNoteTrack,
                 savedItems>>
  /\ PlayerUnmounted

\* The download is ready: setAudioUrl(data.audioUrl), setShowFetchBlock(false).
FetchSucceeds ==
  /\ pendingFetch
  /\ pendingFetch' = FALSE
  /\ showFetchBlock' = FALSE
  /\ UNCHANGED <<pendingLoad, pageBpm, pageOffset, pageNoteTrack, currentSavedId,
                 savedItems>>
  /\ SetAudioUrl(FetchedAudio)

\* The download fails: setError, the fetch block stays.
FetchFails ==
  /\ pendingFetch
  /\ pendingFetch' = FALSE
  /\ UNCHANGED <<audioUrl, pendingLoad, showFetchBlock, pageBpm, pageOffset,
                 pageNoteTrack, currentSavedId, savedItems>>
  /\ PlayerKept

NextSession ==
  \/ Ready(TrackDuration)
  \/ \E raw \in SessionBpmRaw : BpmInput(raw)
  \/ \E raw \in SessionOffsetRaw : OffsetInput(raw)
  \/ \E raw \in SessionBeatsPerBarRaw : BeatsPerBarInput(raw)
  \/ \E k \in NoteKeys, t \in ChordTexts : handleNoteChange(k, t)
  \/ ToggleGuitarTab
  \/ OpenTabEditor
  \/ FocusTabCell
  \/ TabCellChange(<<0, 0>>, 3, <<"1", "2">>)
  \/ \E i \in SavedItemIds : handleLoadSavedItem(i)
  \/ LoadVerified
  \/ LoadRefetchFailed
  \/ handleNewSong
  \/ handleFetchAudio
  \/ FetchSucceeds
  \/ FetchFails

SpecSession == Init /\ [][NextSession]_vars

\* ------------------------------------------------------------ annotations
\* Chord cells (timestamp, segmentIndex) and texts typed into them, and the
\* texts typed into tab cells, when both stores are edited side by side.
AnnotationChordKeys == {<<0, 0>>, <<0, 1>>, <<2000, 0>>}
AnnotationChordTexts == {"G", ""}
AnnotationTabTexts == {<<>>, <<"1", "2">>}

NextAnnotations ==
  \/ \E d \in TabDurations : Ready(d)
  \/ \E raw \in TabBeatsPerBarRaw : BeatsPerBarInput(raw)
  \/ ToggleGuitarTab
  \/ OpenTabEditor
  \/ FocusTabCell
  \/ \E k \in TabKeys, i \in TabSlots, t \in AnnotationTabTexts : TabCellChange(k, i, t)
  \/ \E k \in AnnotationChordKeys, t \in AnnotationChordTexts : handleNoteChange(k, t)

SpecAnnotations == Init /\ [][NextAnnotations]_vars

\* ------------------------------------------------- tab data and the parent
\* v.join(''): the cell texts of one entry, one after the other.
RECURSIVE JoinCells(_)
JoinCells(cells) ==
  IF cells = <<>> THEN <<>> ELSE Head(cells) \o JoinCells(Tail(cells))

\* The map given to onTabChange: every stored entry flattened to one string.
\* An entry the store does not hold has the empty array in `tab`.
OldFormat(tab) ==
  [k \in {key \in DOMAIN tab : tab[key] # <<>>} |-> JoinCells(tab[k])]

\* c.trim() || c === ' '
WhitespaceChars == {" ", "\t", "\n"}
KeepsChar(c) == c \notin WhitespaceChars \/ c = " "

\* useState initializer of tabData for string values: one slot per kept
\* character.
InitialTabData(initial) ==
  [k \in DOMAIN initial |->
     LET parts == SelectSeq(initial[k], KeepsChar)
     IN  [i \in 1..Len(parts) |-> <<parts[i]>>]]

\* The initialTabData effect for string values: unless the editor is open,
\* every key gets slotsPerBar empty slots and the map replaces tabData.
TabDataSyncEffect(prev, initial, editing, slotsPerBar) ==
  IF editing THEN prev
  ELSE [k \in DOMAIN initial |-> [i \in 1..slotsPerBar |-> <<>>]]

\* getTabNote: (tabData[key] || [])[noteIndex] || ''
getTabNote(tab, key, noteIndex) ==
  IF key \in DOMAIN tab /\ noteIndex + 1 <= Len(tab[key])
    THEN tab[key][noteIndex + 1] ELSE <<>>

\* The 100 ms timer of the parent sync effect fires after tabData changed:
\* onTabChange(oldFormat).  `from` and `beatsPerBar` record what was emitted.
TabDataTimer ==
  /\ audioUrl # 0
  /\ IF parentTabData = <<>> THEN TRUE ELSE parentTabData[1].from # tabData
  /\ parentTabData' = <<[map |-> OldFormat(tabData), from |-> tabData,
                         beatsPerBar |-> beatsPerBar]>>
  /\ UNCHANGED <<restoredTabData, playbackVars, regionVars, tempoVars, sessionVars,
                 autosaveVars, metronomeVars, uiVars, frameLoops, isLooping,
                 migrationVars, downloadVars, pollVars>>

\* A player is mounted with the parent's map as initialTabData, under the
\* time signature now in force: the useState initializer, then the
\* initialTabData effect with the editor closed.
MountWithTabData ==
  /\ parentTabData # <<>>
  /\ restoredTabData' =
       <<[of |-> parentTabData[1], beatsPerBar |-> beatsPerBar,
          data |-> TabDataSyncEffect(InitialTabData(parentTabData[1].map),
                                     parentTabData[1].map, FALSE, getSlotsPerBar)]>>
  /\ UNCHANGED <<parentTabData, playbackVars, regionVars, tempoVars, sessionVars,
                 autosaveVars, metronomeVars, uiVars, frameLoops, isLooping,
                 migrationVars, downloadVars, pollVars>>

NextTabSync ==
  \/ \E d \in TabDurations : Ready(d)
  \/ ToggleGuitarTab
  \/ OpenTabEditor
  \/ FocusTabCell
  \/ \E k \in TabKeys, i \in TabSlots, t \in AnnotationTabTexts : TabCellChange(k, i, t)
  \/ TabDataTimer
  \/ MountWithTabData

SpecTabSync == Init /\ [][NextTabSync]_vars

\* --------------------------------------------------------------- autosave
\* updateAudioItem: the item with this id, if there is one, takes the
\* updated fields.
updateAudioItem(items, id, updates) ==
  IF id \in DOMAIN items
    THEN [items EXCEPT ![id] = [bpm |-> updates.bpm, offset |-> updates.offset,
                                noteTrack |-> updates.noteTrack]]
    ELSE items

\* The autosave timer fires after its delay: the callback writes the values
\* of the render that set it.  Nothing re-renders.
AutosaveTimer ==
  /\ autoSaveTimeout # <<>>
  /\ savedItems' = updateAudioItem(savedItems, autoSaveTimeout[1].id, autoSaveTimeout[1])
  /\ autoSaveTimeout' = <<>>
  /\ unsavedEdit' = IF unsavedEdit = autoSaveTimeout THEN <<>> ELSE unsavedEdit
  /\ UNCHANGED <<audioUrl, pendingLoad, pendingFetch, showFetchBlock, pageNoteTrack,
                 notes, currentSavedId>>
  /\ UNCHANGED <<playbackVars, regionVars, tempoVars, metronomeVars, uiVars,
                 frameLoops, otherVars>>

NextAutosave ==
  \/ Ready(TrackDuration)
  \/ \E raw \in SessionBpmRaw : BpmInput(raw)
  \/ \E k \in NoteKeys, t \in ChordTexts : handleNoteChange(k, t)
  \/ \E i \in SavedItemIds : handleLoadSavedItem(i)
  \/ LoadVerified
  \/ handleNewSong
  \/ AutosaveTimer

\* The browser runs a timer that stays due.
SpecAutosave == Init /\ [][NextAutosave]_vars /\ WF_vars(AutosaveTimer)

\* ======================================================= region properties
\* The region invariant of the data model: 0 <= start < end <= duration.
RegionOK(r) == 0 <= r.start /\ r.start < r.end /\ r.end <= duration

\* C1: after any region create or update operation (drag-create,
\* drag-resize, Set A, Set B, nudge start, nudge end) the resulting region
\* satisfies 0 <= start < end <= duration.
C1_RegionInvariant == currentRegion # NoRegion => RegionOK(currentRegion)

\* C2: at most one region exists at any time: the plugin holds no region
\* other than the player's current region, also right after a region has
\* replaced another one.
C2_SingleRegion ==
  /\ Cardinality(regions) <= 1
  /\ regions = IF currentRegion = NoRegion THEN {} ELSE {currentRegion}

\* C2 witness: a region was created while another one existed (the second id
\* is only handed out then) and it is the only one left.
C2_Replaced == currentRegion.id = 2 /\ regions = {currentRegion}

\* C3: while playing with a region [s, e], a loop-monitor tick that finds
\* the playback time at or past e seeks to s, so that the position after the
\* tick is s (< e), and playback is still playing.
C3_LoopSnap ==
  [][(LoopTick /\ isPlaying /\ RegionOK(currentRegion) /\ time >= currentRegion.end)
       => /\ lastSeek' = SeekTo("loop", currentRegion.start)
          /\ time' = currentRegion.start
          /\ time' < currentRegion.end
          /\ isPlaying']_vars

\* C3 witness: a tick has just snapped a playing engine back to the start of
\* the region.
C3_Snapped ==
  /\ lastSeek.by = "loop"
  /\ isPlaying
  /\ RegionOK(currentRegion)
  /\ time = currentRegion.start

\* C4: the loop monitor's timer is running exactly when playback is playing
\* and a region exists.
C4_WatchingIffPlayingAndRegion ==
  loopInterval <=> (isPlaying /\ currentRegion # NoRegion /\ regions # {})

\* C4 witness: Watching while playing a region that replaced another one.
C4_WatchingAfterReplace == loopInterval /\ isPlaying /\ currentRegion.id = 2

\* C5: on the engine's finished notification, if a region exists the engine
\* is sought to region.start and playing stays true; if no region exists,
\* playing becomes false and nothing is sought.
C5_FinishLoopsOrStops ==
  [][Finish =>
       IF currentRegion # NoRegion
         THEN /\ lastSeek' = SeekTo("finish", currentRegion.start)
              /\ RegionOK(currentRegion) => time' = currentRegion.start
              /\ isPlaying'
         ELSE /\ lastSeek' = NoSeek
              /\ time' = time
              /\ ~isPlaying']_vars

\* C5 witness: the track finished with a region and playback went on from
\* the region start.
C5_FinishedIntoRegion ==
  /\ lastSeek.by = "finish"
  /\ isPlaying
  /\ RegionOK(currentRegion)
  /\ time = currentRegion.start

C9_NudgeClamp ==
  [][\A d \in NudgeDeltas :
       /\ (handleNudgeStart(d) /\ RegionOK(currentRegion))
            => /\ currentRegion'.start >= 0
               /\ currentRegion.start + d < 0 => currentRegion'.start = 0
       /\ (handleNudgeEnd(d) /\ RegionOK(currentRegion))
            => /\ currentRegion'.end <= duration
               /\ currentRegion.end + d > duration => currentRegion'.end = duration]_vars

\* ======================================================== tempo properties
\* Exact position of bar k, scaled by bpm: (offset + k * barWidth) * bpm.
ExactBarScaled(k) == offset * bpm + k * BarStepScaled
\* Indexes k of the bars that lie in [0, duration].
BarIndexes ==
  {k \in 0..Max(0, ((duration - offset) * bpm) \div BarStepScaled + 1) :
     0 <= ExactBarScaled(k) /\ ExactBarScaled(k) <= duration * bpm}
FirstBarIndex == CHOOSE k \in BarIndexes : \A j \in BarIndexes : k <= j
\* The whole millisecond nearest to n / d (halves up), n >= 0.
NearestMs(n, d) ==
  CHOOSE m \in 0..(n \div d + 1) : 2 * m * d - d <= 2 * n /\ 2 * n < 2 * m * d + d

GridInputsValid == duration > 0 /\ bpm > 0 /\ beatsPerBar > 0

C8_DegenerateGridEmpty ==
  (duration = 0 \/ bpm <= 0 \/ beatsPerBar <= 0) => getNoteTimestamps = <<>>

\* C8 witness: a loaded track with the tempo cleared and a non-zero offset.
C8_ClearedTempo ==
  /\ duration > 0 /\ bpm = 0 /\ beatsPerBar > 0 /\ offset # 0
  /\ getNoteTimestamps = <<>>

\* C10: when the tempo becomes invalid while the metronome is active it
\* stops (no timer, no click) and remembers it was active; it stays so while
\* the tempo is invalid; when the tempo becomes valid again it resumes with an
\* immediate click and a timer of period 60/bpm.
C10_SuspendAndResume ==
  /\ [](metronomeWasActive => (~metronomeActive /\ metronomeInterval = 0 /\ bpm <= 0))
  /\ [][/\ (metronomeActive /\ bpm' <= 0)
             => (~metronomeActive' /\ metronomeWasActive' /\ metronomeInterval' = 0 /\ ~click')
        /\ (metronomeWasActive /\ bpm' <= 0)
             => (~metronomeActive' /\ metronomeWasActive' /\ ~click')
        /\ (metronomeWasActive /\ bpm' > 0)
             => /\ metronomeActive' /\ ~metronomeWasActive' /\ click'
                /\ metronomeInterval' * bpm' <= MS_PER_MINUTE
                /\ MS_PER_MINUTE < (metronomeInterval' + 1) * bpm']_vars

\* C10 witness: the metronome is suspended by an invalid tempo and remembers
\* that it was active.
C10_Suspended ==
  metronomeWasActive /\ ~metronomeActive /\ bpm <= 0 /\ metronomeInterval = 0

\* C11: after a user-initiated stop of the metronome no sequence of tempo
\* changes (valid to invalid and back, any order and number) restarts it: it
\* stays inactive, without "was active" intent, timer or click, until the
\* user toggles it on again.
C11_NoRestartAfterUserStop ==
  sinceUserStop # "none" =>
    (~metronomeActive /\ ~metronomeWasActive /\ metronomeInterval = 0 /\ ~click)

\* C11 witness: the user stopped the metronome, the tempo was then made
\* invalid and valid again, and the metronome is still off.
C11_StillStopped ==
  sinceUserStop = "revalid" /\ bpm > 0 /\ ~metronomeActive /\ metronomeInterval = 0

\* C12: with an unchanged valid tempo, toggling the metronome on, off and on
\* again gives the same click period (60/bpm s) both times, and every
\* activation by the toggle fires its first click immediately.
C12_ToggleIdempotent ==
  /\ []((metronomeActive /\ prevPeriod # 0) => metronomeInterval = prevPeriod)
  /\ [][(toggleMetronome /\ ~metronomeActive)
         => /\ metronomeActive' /\ click'
            /\ metronomeInterval' * bpm <= MS_PER_MINUTE
            /\ MS_PER_MINUTE < (metronomeInterval' + 1) * bpm]_vars

\* C12 witness: the metronome was stopped by the user and switched on again
\* at the same tempo; it has just clicked and runs at the earlier period.
C12_SecondActivation ==
  /\ metronomeActive /\ click
  /\ prevPeriod # 0 /\ metronomeInterval = prevPeriod
  /\ sinceUserStop = "none"

\* C13 (as claimed): when the tempo changes from one valid value to another
\* while the metronome is active, the timer is replaced by one of period
\* 60/newBpm and a click is fired immediately.
C13_RetimeWithClick ==
  [][(metronomeActive /\ bpm > 0 /\ bpm' > 0 /\ bpm' # bpm)
       => /\ metronomeActive'
          /\ metronomeInterval' * bpm' <= MS_PER_MINUTE
          /\ MS_PER_MINUTE < (metronomeInterval' + 1) * bpm'
          /\ click']_vars

\* ======================================================= scroll properties
\* C14 (as claimed): a user-initiated scroll on any view, in any player
\* state including while playback and autoscroll are running, disables
\* autoscroll and arms the 3 s timer that re-enables it; autoscroll is off
\* exactly while that timer runs.
C14_UserScrollDisablesAutoscroll ==
  /\ [](autoScroll <=> autoScrollTimeout = 0)
  /\ [][\A v \in Views :
          (ScrollEvent(v) /\ pendingScroll[v] = "user" /\ ~isSyncingScrollRef)
            => (~autoScroll' /\ autoScrollTimeout' = AUTOSCROLL_QUIET_MS)]_vars

\* C15 (as claimed): once a user scroll on one view has been handled by
\* that view's onScroll, every other visible view has that view's offset.
C15_ScrollPropagates ==
  [][\A v \in Views :
       (ScrollEvent(v) /\ pendingScroll[v] = "user"
          /\ ~isSyncingScrollRef /\ ~isAutoScrollingRef)
         => \A w \in Views : Mounted(w) => scrollLeft'[w] = scrollLeft[v]]_vars

\* C16 (as claimed): no frame of the autoscroll loop moves a view while
\* zoomLevel = 0, while a chord cell or a tab cell is being edited, or while
\* playback is paused.
C16_AutoscrollSuspended ==
  [][(AutoScrollFrame /\ scrollLeft' # scrollLeft)
       => (zoomLevel # 0 /\ ~isTypingNote /\ ~tabCellFocused /\ isPlaying)]_vars

\* ========================================================== tab properties
\* The step writes text t to slot i (counted from 0) of the array under k.
C17_Writes(k, i, t) ==
  \/ TabCellChange(k, i, t) /\ lastTabEdit' # "refused"
  \/ TabCellSpaceKey(k, i) /\ t = <<" ">>

\* C17: a write to a key whose stored array is shorter than the current
\* slotsPerBar rebuilds the entry as an array of exactly slotsPerBar slots:
\* every old value stays at its original index, the written slot holds the new
\* text, and all remaining slots are empty.
C17_ResizeKeepsValues ==
  [][\A k \in TabKeys, i \in TabSlots, t \in TabTexts \cup {<<" ">>} :
       (C17_Writes(k, i, t) /\ Len(tabData[k]) < getSlotsPerBar)
         => /\ Len(tabData'[k]) = getSlotsPerBar
            /\ \A j \in 1..getSlotsPerBar :
                 tabData'[k][j] = IF j = i + 1 THEN t
                                  ELSE IF j <= Len(tabData[k]) THEN tabData[k][j]
                                  ELSE <<>>]_vars

\* An array of 4 slots holding a value at index 3 was grown to 16 slots by a
\* write at index 5, and the old value is still at index 3.
C17_GrownFromFour ==
  /\ lastTabEdit = "grown"
  /\ getSlotsPerBar = 16
  /\ \E k \in TabKeys :
       /\ \A o \in TabKeys \ {k} : tabData[o] = <<>>
       /\ Len(tabData[k]) = 16
       /\ tabData[k][4] = <<"1", "2">>
       /\ tabData[k][6] = <<" ">>
       /\ \A j \in (1..16) \ {4, 6} : tabData[k][j] = <<>>

\* A cell text the tab store may hold: empty, one space, or digits only.
C18_CellAllowed(c) ==
  \/ c = <<>>
  \/ c = <<" ">>
  \/ (c # <<>> /\ \A n \in 1..Len(c) : c[n] \in Digits)

\* C18: an edit whose text is neither empty, nor one space, nor digits only
\* leaves the tab store unchanged, so every stored cell is always empty, one
\* space, or digits only.
C18_OnlyValidCellsStored ==
  /\ [](\A k \in TabKeys : \A j \in 1..Len(tabData[k]) : C18_CellAllowed(tabData[k][j]))
  /\ [][\A k \in TabKeys, i \in TabSlots, t \in TabTexts :
          (TabCellChange(k, i, t) /\ ~C18_CellAllowed(t)) => tabData' = tabData]_vars

\* An edit has just been refused while the store holds a multi-digit fret.
C18_EditRefused ==
  /\ lastTabEdit = "refused"
  /\ \E k \in TabKeys : \E j \in 1..Len(tabData[k]) : tabData[k][j] = <<"1", "2">>

\* ======================================================== clear properties
\* C19: clearing removes the region and disables looping: right after it no
\* region exists and the loop monitor is off, and until a new region is
\* created no loop-monitor tick and no end-of-track notification seeks back.
C19_ClearStopsLooping ==
  /\ [][handleClearRegion
          => (regions' = {} /\ currentRegion' = NoRegion
              /\ currentRegionRef' = NoRegion /\ ~loopInterval')]_vars
  /\ [](cleared => (regions = {} /\ ~loopInterval))
  /\ [][cleared => lastSeek'.by \notin {"loop", "finish"}]_vars

\* A region was cleared during playback, and playback has gone on beyond
\* the place where that region ended.
C19_PlayedPastClearedEnd ==
  /\ cleared
  /\ clearedEnd > 0
  /\ isPlaying
  /\ time > clearedEnd
  /\ lastSeek = NoSeek

\* ======================================================== error properties
\* C20: while the error state is shown no periodic activity is armed: the
\* loop monitor's interval, the metronome's timer and the autoscroll loop are
\* all stopped.
C20_ErrorHaltsPeriodicActivity ==
  error => (~loopInterval /\ metronomeInterval = 0 /\ ~isAutoScrollingRef)

\* ======================================================= source properties
\* C21: loading a new audio source destroys the region: right after the
\* source changes no region exists and the loop monitor is idle, and this
\* stays so until a region is created on the new source.
C21_NewSourceDropsRegion ==
  /\ [][NewSource => (regions' = {} /\ currentRegion' = NoRegion
                      /\ currentRegionRef' = NoRegion /\ ~loopInterval')]_vars
  /\ [](regionDropped => (regions = {} /\ currentRegion = NoRegion
                          /\ currentRegionRef = NoRegion /\ ~loopInterval))

\* A source change dropped a region; the new source has loaded and is playing
\* with no region.
C21_PlayingNewSource ==
  /\ regionDropped
  /\ ~isLoading
  /\ duration > 0
  /\ isPlaying
  /\ time > 0

\* ==================================================== Set A / B properties
\* C22 (as claimed): with no region, Set A creates the 5-second region that
\* starts at the playhead and Set B the 5-second region that ends at it; with
\* a region, Set A / Set B move just the start / end to the playhead and the
\* other boundary keeps its value.
C22_FiveSecondsAndOtherKept ==
  [][/\ (handleSetA /\ currentRegion = NoRegion)
          => (currentRegion'.start = clampedTime
              /\ currentRegion'.end = clampedTime + DEFAULT_REGION_MS)
     /\ (handleSetB /\ currentRegion = NoRegion)
          => (currentRegion'.end = clampedTime
              /\ currentRegion'.start = clampedTime - DEFAULT_REGION_MS)
     /\ (handleSetA /\ currentRegion # NoRegion)
          => (currentRegion'.start = clampedTime
              /\ currentRegion'.end = currentRegion.end)
     /\ (handleSetB /\ currentRegion # NoRegion)
          => (currentRegion'.end = clampedTime
              /\ currentRegion'.start = currentRegion.start)]_vars

\* C22 (amended): with no region, Set A creates the region from the playhead
\* to 5 s later, cut at the track end, and Set B the region from 5 s before
\* the playhead, cut at 0, to the playhead; with a region, the named boundary
\* moves to the playhead and the other boundary keeps its value unless it
\* would be less than 0.1 s beyond the playhead, and is then put 0.1 s from it.
C22_AnchoredAtPlayhead ==
  [][/\ (handleSetA /\ currentRegion = NoRegion)
          => /\ currentRegion'.start = clampedTime
             /\ currentRegion'.end =
                  (IF clampedTime + DEFAULT_REGION_MS <= duration
                     THEN clampedTime + DEFAULT_REGION_MS ELSE duration)
     /\ (handleSetB /\ currentRegion = NoRegion)
          => /\ currentRegion'.end = clampedTime
             /\ currentRegion'.start =
                  (IF clampedTime >= DEFAULT_REGION_MS
                     THEN clampedTime - DEFAULT_REGION_MS ELSE 0)
     /\ (handleSetA /\ currentRegion # NoRegion)
          => /\ currentRegion'.start = clampedTime
             /\ currentRegion'.end =
                  (IF currentRegion.end >= clampedTime + MIN_REGION_MS
                     THEN currentRegion.end ELSE clampedTime + MIN_REGION_MS)
     /\ (handleSetB /\ currentRegion # NoRegion)
          => /\ currentRegion'.end = clampedTime
             /\ currentRegion'.start =
                  (IF currentRegion.start <= clampedTime - MIN_REGION_MS
                     THEN currentRegion.start ELSE clampedTime - MIN_REGION_MS)]_vars

\* Set A at 2 s created the full 5-second region [2 s, 7 s], and Set B then
\* moved only its end to the playhead at 5 s.
C22_DefaultThenSetB ==
  /\ duration = LongDuration
  /\ time = 5000
  /\ currentRegion # NoRegion
  /\ currentRegion.id = 1
  /\ currentRegion.start = 2000
  /\ currentRegion.end = 5000

\* =================================================== slots-per-bar properties
\* C23 (as claimed): slotsPerBar equals 4 x beatsPerBar for every value of
\* beatsPerBar the player holds, whatever bpm, offset and duration are.
C23_FourSlotsPerBeat == getSlotsPerBar = 4 * beatsPerBar

\* C23 (amended): slotsPerBar equals 4 x beatsPerBar whenever beatsPerBar is
\* positive and is 16 when beatsPerBar is cleared or not positive, whatever
\* bpm, offset and duration are.
C23_FourSlotsPerBeatOrDefault ==
  /\ beatsPerBar > 0 => getSlotsPerBar = 4 * beatsPerBar
  /\ beatsPerBar <= 0 => getSlotsPerBar = 16

\* Three beats per bar give 12 slots on a track with a tempo, an offset and a
\* length other than the defaults.
C23_TwelveSlots ==
  /\ beatsPerBar = 3
  /\ getSlotsPerBar = 12
  /\ bpm = 70
  /\ offset # 0
  /\ duration = 9999

\* ============================================================ zoom properties
\* C24: after any sequence of zoom-in, zoom-out, slider and show/hide-tab
\* operations zoomLevel is 0 (fit) or within [5, 500]; zoom-in from 0 gives
\* 5, and a zoom-out from a level that would round below 5 gives 0.
C24_ZoomDomain ==
  /\ [](zoomLevel = 0 \/ (5 <= zoomLevel /\ zoomLevel <= 500))
  /\ [][(handleZoomIn /\ zoomLevel = 0) => zoomLevel' = 5]_vars
  /\ [][(handleZoomOut /\ zoomLevel <= 5) => zoomLevel' = 0]_vars

\* Zooming in has reached the cap of 500 px per second.
C24_ZoomedToCap == zoomLevel = 500 /\ ~showGuitarTab /\ ~zoomSyncTimeout

\* C25: the tempo reported to the page (and from there to the session store)
\* is always either unset or a positive integer, never bpm = 0.
C25_ReportedTempoUnsetOrPositive == pageBpm = <<>> \/ pageBpm[1] > 0

\* C26: every timer of the player is cancelled before its session is
\* discarded: while the next source is loading (isLoading, set by the source
\* change; no transport or timing control is usable until it is ready) no
\* loop-monitor interval, metronome interval, autoscroll frame loop or
\* autoscroll re-enable timeout of the superseded session is live.
C26_NoTimerSurvivesSourceChange ==
  isLoading => /\ ~loopInterval
               /\ metronomeInterval = 0
               /\ ~isAutoScrollingRef
               /\ autoScrollTimeout = 0

\* ---------------------------------------------------------------- timers
\* The steps that change a governing condition of one of the three periodic
\* activities: playing, region identity, tempo, metronome, autoscroll.
NextTimers ==
  \/ \E d \in ScrollDurations : Ready(d)
  \/ PlayPause
  \/ \E s, e \in TimerDragPositions : DragCreate(s, e)
  \/ handleClearRegion
  \/ \E raw \in TimerBpmRaw : BpmInput(raw)
  \/ toggleMetronome
  \/ \E v \in {"wave"}, x \in ScrollOffsets : UserScroll(v, x)
  \/ \E v \in Views : ScrollEvent(v)
  \/ UnsyncTimeout
  \/ QuietTimePasses
  \/ handleZoomOut
  \/ ChordFocus
  \/ NewSource

SpecTimers == Init /\ [][NextTimers]_vars

\* C27: at every moment at most one loop-monitor timer, at most one metronome
\* timer and at most one autoscroll frame loop is live, whatever sequence of
\* changes of playing, region, tempo, metronome and autoscroll came before.
C27_AtMostOneTimerOfEachKind ==
  loopTimers <= 1 /\ metronomeTimers <= 1 /\ frameLoops <= 1

\* All three are live, after the region was replaced and the tempo changed.
C27_AllThreeRestarted ==
  /\ loopTimers = 1 /\ metronomeTimers = 1 /\ frameLoops = 1
  /\ currentRegion.id = 2 /\ bpm # DEFAULT_BPM

\* C28: propagating a user scroll never bounces back: the delivery of a
\* scroll event that a propagation raised (origin "propagated"), before or after
\* the guard's reset, writes no view's offset, raises no further scroll
\* event, and does not count as a manual scroll (autoScroll and its 3 s
\* timer are left as they are).
C28_SyncEventsAreInert ==
  [][\A v \in Views :
       (ScrollEvent(v) /\ pendingScroll[v] = "propagated")
         => /\ scrollLeft' = scrollLeft
            /\ \A w \in Views \ {v} : pendingScroll'[w] = pendingScroll[w]
            /\ autoScroll' = autoScroll
            /\ autoScrollTimeout' = autoScrollTimeout]_vars

\* ===================================================== snapshot properties
\* C29: each loop-monitor tick and each end-of-track notification decides on
\* the region the player holds at that moment: the snapshot the callbacks read
\* is always the current region, a tick seeks exactly when the time is at or
\* past the current end and then to the current start, and a finish seeks to
\* the current start or, with no region, not at all; so after a clear, a
\* replacement or a resize no tick uses the old end or the old start.
C29_TicksUseCurrentRegion ==
  /\ [](currentRegionRef = currentRegion)
  /\ [][LoopTick =>
          lastSeek' = IF currentRegion # NoRegion /\ time >= currentRegion.end
                        THEN SeekTo("loop", currentRegion.start)
                        ELSE NoSeek]_vars
  /\ [][Finish =>
          lastSeek' = IF currentRegion # NoRegion
                        THEN SeekTo("finish", currentRegion.start)
                        ELSE NoSeek]_vars

\* A tick has sought back to a start that only a nudge (a resize) can have
\* produced.
C29_LoopedAfterResize ==
  /\ lastSeek.by = "loop"
  /\ currentRegion # NoRegion
  /\ currentRegion.start \notin DragPositions
  /\ lastSeek.to = currentRegion.start

\* ====================================================== session properties
\* C30: no two sessions share mutable state: when the load of a saved item
\* completes while the page still holds the item's values, the player's
\* tempo, offset and chords are the item's (the defaults where the item has
\* none), and its time signature and tab store are the initial ones; when
\* a fetched song starts, the player holds nothing but the initial values.
C30_PlayerStateIsTheNewSessions ==
  /\ [][\A i \in SavedItemIds :
          (/\ LoadVerified
           /\ pendingLoad = i
           /\ audioUrl # i
           /\ pageBpm = SavedItem(i).bpm
           /\ pageOffset = SavedItem(i).offset
           /\ pageNoteTrack = ConvertNotes(SavedItem(i).noteTrack))
            => /\ bpm' = (IF SavedItem(i).bpm = <<>> THEN DEFAULT_BPM
                          ELSE SavedItem(i).bpm[1])
               /\ offset' = (IF SavedItem(i).offset = <<>> THEN 0
                             ELSE SavedItem(i).offset[1])
               /\ notes' = ConvertNotes(SavedItem(i).noteTrack)
               /\ beatsPerBar' = DEFAULT_BEATS_PER_BAR
               /\ tabData' = [k \in TabKeys |-> <<>>]]_vars
  /\ [][FetchSucceeds
          => /\ bpm' = DEFAULT_BPM
             /\ offset' = 0
             /\ notes' = NoNotes
             /\ beatsPerBar' = DEFAULT_BEATS_PER_BAR
             /\ tabData' = [k \in TabKeys |-> <<>>]]_vars

\* ============================================ player with a loop toggle
\* The earlier WavePlayer in which looping is a switch of its own
\* (`isLooping`): region handlers, loop toggle and loop monitoring effect.

\* Variant: region-removed leaves the loop switch alone.
LoopingAfterRemoved_Kept(looping) == looping

\* region-removed: setCurrentRegion(null); setIsLooping(false).
LoopingAfterRemoved(looping) == FALSE

\* handleToggleLoop: if (!currentRegion) return; setIsLooping(!isLooping).
\* The L key calls it under the same condition.
ToggledLoop(looping, region) == IF region = NoRegion THEN looping ELSE ~looping

\* Loop monitoring effect: the interval is started only if playing, looping
\* and a region exists.
LoopToggleEffect(playing, looping, region) ==
  playing /\ looping /\ region # NoRegion

\* Dependency array: [isPlaying, isLooping, currentRegion?.id].
LoopToggleDeps(playing, looping, region) == <<playing, looping, region.id>>

\* The ref sync effects and the loop monitoring effect after a render.
SettleLoopToggleEffects ==
  /\ currentRegionRef' = currentRegion'
  /\ loopInterval' = LoopToggleEffect(isPlaying', isLooping', currentRegion')
  /\ loopTimers' = LoopTimersAfter(loopTimers, loopInterval, loopInterval',
                                   LoopToggleDeps(isPlaying', isLooping', currentRegion')
                                     # LoopToggleDeps(isPlaying, isLooping, currentRegion))
  /\ regionDropped' = (regionDropped /\ currentRegion' = NoRegion)

\* History of clearing, kept as the handlers of the current player keep it.
LoopToggleNotCleared ==
  /\ cleared' = (cleared /\ currentRegion' = NoRegion)
  /\ clearedEnd' = (IF currentRegion' = NoRegion THEN clearedEnd ELSE 0)

\* What the handlers of this player leave alone.
LoopToggleFrame ==
  /\ lastSeek' = NoSeek
  /\ UNCHANGED <<time, duration, isLoading, tempoVars, metronomeVars, uiVars,
                 sessionVars, autosaveVars, frameLoops, migrationVars, downloadVars,
                 pollVars, tabSyncVars>>

\* wavesurfer play / pause events after handlePlayPause.
LoopTogglePlayPause ==
  /\ ~isLoading
  /\ isPlaying' = ~isPlaying
  /\ UNCHANGED <<regions, currentRegion, isLooping>>
  /\ SettleLoopToggleEffects
  /\ LoopToggleNotCleared
  /\ LoopToggleFrame

\* Loop button and L key.
handleToggleLoop ==
  /\ ~isLoading
  /\ isLooping' = ToggledLoop(isLooping, currentRegion)
  /\ UNCHANGED <<regions, currentRegion, isPlaying>>
  /\ SettleLoopToggleEffects
  /\ LoopToggleNotCleared
  /\ LoopToggleFrame

\* Drag selection: the plugin saves the region and emits region-created,
\* whose handler removes every other region (each removal emits
\* region-removed) and then sets currentRegion.
LoopToggleDragCreate(s, e) ==
  /\ ~isLoading
  /\ 0 <= s /\ s < e /\ e <= duration
  /\ LET new == Region(NewId(regions), s, e) IN
       /\ regions' = RemoveOthers(regions \cup {new}, new)
       /\ currentRegion' = new
       /\ isLooping' = IF \E r \in regions : r.id # new.id
                         THEN LoopingAfterRemoved(isLooping) ELSE isLooping
  /\ UNCHANGED isPlaying
  /\ SettleLoopToggleEffects
  /\ LoopToggleNotCleared
  /\ LoopToggleFrame

\* Edge drag: region-updated sets currentRegion.
LoopToggleDragResize(s, e) ==
  /\ ~isLoading
  /\ currentRegion # NoRegion
  /\ currentRegion \in regions
  /\ s = currentRegion.start \/ e = currentRegion.end
  /\ <<s, e>> # <<currentRegion.start, currentRegion.end>>
  /\ 0 <= s /\ s < e /\ e <= duration
  /\ RegionUpdated(Region(currentRegion.id, s, e))
  /\ UNCHANGED <<isPlaying, isLooping>>
  /\ SettleLoopToggleEffects
  /\ LoopToggleNotCleared
  /\ LoopToggleFrame

\* Clear button and Esc key: clearRegions() (region-removed for each region),
\* setCurrentRegion(null), setIsLooping(false).
LoopToggleClearRegion ==
  /\ ~isLoading
  /\ regions' = {}
  /\ currentRegion' = NoRegion
  /\ isLooping' = FALSE
  /\ UNCHANGED isPlaying
  /\ SettleLoopToggleEffects
  /\ cleared' = TRUE
  /\ clearedEnd' = (IF currentRegion # NoRegion THEN currentRegion.end ELSE clearedEnd)
  /\ LoopToggleFrame

\* Positions between which a region is first dragged; its edges are then
\* dragged to any of DragPositions.
LoopToggleCreatePositions == {0, 200, 500}

NextLoopToggle ==
  \/ Ready(TrackDuration)
  \/ LoopTogglePlayPause
  \/ handleToggleLoop
  \/ \E s, e \in LoopToggleCreatePositions : LoopToggleDragCreate(s, e)
  \/ \E s, e \in DragPositions : LoopToggleDragResize(s, e)
  \/ LoopToggleClearRegion

SpecLoopToggle == Init /\ [][NextLoopToggle]_vars

\* =================================================== note track migration
\* The conversion of a stored note track taken on its own: the loop of
\* handleLoadSavedItem and the same loop in the player, over an object whose
\* entries are kept in insertion order.  Keys are timestamps in ms, so the
\* key of a whole second is the string of an integer.
MS_PER_SECOND == 1000

\* Largest number of entries of a stored note track.
MaxEntries == 2
\* Keys and texts of the stored note tracks: bars at 0 s and at 0.5 s, in the
\* old format and in the new one.
MigrationKeys == {<<0>>, <<0, 0>>, <<0, 1>>, <<500>>, <<500, 0>>}
MigrationTexts == {"Am", "G"}

Entry(k, v) == [key |-> k, text |-> v]

\* An object: entries in insertion order, no key twice.
StoredNoteTracks ==
  {t \in UNION {[1..n -> [key : MigrationKeys, text : MigrationTexts]] : n \in 0..MaxEntries} :
     \A i, j \in 1..Len(t) : t[i].key = t[j].key => i = j}

\* obj[k], and k in obj
HasKey(obj, k) == \E i \in 1..Len(obj) : obj[i].key = k
TextAt(obj, k) == obj[CHOOSE i \in 1..Len(obj) : obj[i].key = k].text

\* obj[k] = v: an existing property keeps its place, a new one goes last.
SetEntry(obj, k, v) ==
  IF HasKey(obj, k)
    THEN [i \in 1..Len(obj) |-> IF obj[i].key = k THEN Entry(k, v) ELSE obj[i]]
    ELSE Append(obj, Entry(k, v))

\* A key that is the string of an integer (an array index).
IsArrayIndex(k) == Len(k) = 1 /\ k[1] % MS_PER_SECOND = 0

RECURSIVE Ascending(_)
Ascending(S) ==
  IF S = {} THEN <<>>
  ELSE LET m == CHOOSE x \in S : \A y \in S : x <= y
       IN <<m>> \o Ascending(S \ {m})

\* Object.entries(obj): integer keys in ascending order first, then the
\* other keys in insertion order.
ObjectEntries(obj) ==
  LET ints == Ascending({obj[i].key[1] : i \in {j \in 1..Len(obj) : IsArrayIndex(obj[j].key)}})
  IN [i \in 1..Len(ints) |-> Entry(<<ints[i]>>, TextAt(obj, <<ints[i]>>))]
       \o SelectSeq(obj, LAMBDA e : ~IsArrayIndex(e.key))

\* The body of the for loop, over the entries left, into `acc`.
RECURSIVE ConvertEntries(_, _)
ConvertEntries(entries, acc) ==
  IF entries = <<>> THEN acc
  ELSE ConvertEntries(Tail(entries),
                      SetEntry(acc, ConvertKey(Head(entries).key), Head(entries).text))

\* const converted = {}; for (const [key, value] of Object.entries(...)) ...
MigrateNoteTrack(obj) == ConvertEntries(ObjectEntries(obj), <<>>)

\* Everything the current player and page hold.
playerVars == <<playbackVars, regionVars, tempoVars, sessionVars, autosaveVars,
                metronomeVars, uiVars, frameLoops, tabSyncVars>>

\* A stored note track is about to be loaded.
InitMigrate ==
  /\ InitPlayer
  /\ InitLoopToggle
  /\ InitDownload
  /\ InitPoll
  /\ noteTrackData \in StoredNoteTracks
  /\ convertedNoteTrack = <<>>
  /\ converted = <<>>
  /\ migrated = FALSE

\* handleLoadSavedItem converts item.noteTrack and passes the result to the
\* player as initialNotes, which converts it once more.
LoadNoteTrack ==
  /\ ~migrated
  /\ convertedNoteTrack' = MigrateNoteTrack(noteTrackData)
  /\ converted' = MigrateNoteTrack(convertedNoteTrack')
  /\ migrated' = TRUE
  /\ UNCHANGED <<noteTrackData, isLooping, playerVars, downloadVars, pollVars>>

NextMigrate == LoadNoteTrack

SpecMigrate == InitMigrate /\ [][NextMigrate]_vars

\* ========================================================= download route
\* POST /api/download with the file cache of lib/youtube-download.

\* Largest number of requests that are followed.
MaxRequests == 3

\* Extensions a finished download leaves in the cache directory.
AudioExts == {"mp3", "m4a"}

\* Variant: the cache is never consulted.
isCached_Never(files, hash) == FALSE

\* existsSync(mp3Path) || existsSync(m4aPath)
isCached(files, hash) == files[hash].ext \in AudioExts

\* The path of the cached file, <<>> for null.
getCachedFilePath(files, hash) ==
  IF files[hash].ext \in AudioExts THEN <<hash, files[hash].ext>> ELSE <<>>

\* The request is answered from the cache.
AnsweredFromCache(files, hash) ==
  isCached(files, hash) /\ getCachedFilePath(files, hash) # <<>>

\* POST: validate, look the cache key up, answer from the cache or start
\* the cleanup (not awaited) and the download (awaited).
PostRequest(u) ==
  /\ requests < MaxRequests
  /\ requests' = requests + 1
  /\ requested' = u
  /\ IF u = InvalidUrl
       THEN /\ response' = [status |-> "invalid", url |-> u, cached |-> FALSE]
            /\ UNCHANGED <<inFlight, cleanups>>
       ELSE IF AnsweredFromCache(cacheFiles, generateCacheKey(u))
         THEN /\ response' = [status |-> "ready", url |-> u, cached |-> TRUE]
              /\ UNCHANGED <<inFlight, cleanups>>
         ELSE /\ cleanups' = cleanups + 1
              /\ inFlight' = [inFlight EXCEPT ![generateCacheKey(u)] = @ + 1]
              /\ UNCHANGED response
  /\ UNCHANGED <<cacheFiles, downloaded>>
  /\ UNCHANGED <<playerVars, isLooping, migrationVars, pollVars>>

\* yt-dlp closes with code 0, the file is found and is not too large.
DownloadSucceeds(u, ext) ==
  /\ inFlight[generateCacheKey(u)] > 0
  /\ inFlight' = [inFlight EXCEPT ![generateCacheKey(u)] = @ - 1]
  /\ cacheFiles' = [cacheFiles EXCEPT ![generateCacheKey(u)] = [ext |-> ext, old |-> FALSE]]
  /\ downloaded' = downloaded \cup {u}
  /\ response' = [status |-> "ready", url |-> u, cached |-> FALSE]
  /\ UNCHANGED <<cleanups, requests, requested>>
  /\ UNCHANGED <<playerVars, isLooping, migrationVars, pollVars>>

\* yt-dlp fails, is killed by the timeout, or leaves no file.
DownloadFails(u) ==
  /\ inFlight[generateCacheKey(u)] > 0
  /\ inFlight' = [inFlight EXCEPT ![generateCacheKey(u)] = @ - 1]
  /\ response' = [status |-> "error", url |-> u, cached |-> FALSE]
  /\ UNCHANGED <<cacheFiles, cleanups, downloaded, requests, requested>>
  /\ UNCHANGED <<playerVars, isLooping, migrationVars, pollVars>>

\* The file is larger than MAX_FILE_SIZE_MB: it is unlinked.
DownloadTooLarge(u) ==
  /\ inFlight[generateCacheKey(u)] > 0
  /\ inFlight' = [inFlight EXCEPT ![generateCacheKey(u)] = @ - 1]
  /\ cacheFiles' = [cacheFiles EXCEPT ![generateCacheKey(u)] = NoFile]
  /\ response' = [status |-> "error", url |-> u, cached |-> FALSE]
  /\ UNCHANGED <<cleanups, downloaded, requests, requested>>
  /\ UNCHANGED <<playerVars, isLooping, migrationVars, pollVars>>

\* 24 hours go by without a download: every file is now old.
DayPasses ==
  /\ \E h \in CacheKeys : cacheFiles[h].ext \in AudioExts /\ ~cacheFiles[h].old
  /\ cacheFiles' = [h \in CacheKeys |->
                      IF cacheFiles[h].ext \in AudioExts
                        THEN [cacheFiles[h] EXCEPT !.old = TRUE] ELSE cacheFiles[h]]
  /\ UNCHANGED <<inFlight, cleanups, downloaded, requests, requested, response>>
  /\ UNCHANGED <<playerVars, isLooping, migrationVars, pollVars>>

\* cleanupOldCache: unlink every file older than 24 hours.
cleanupOldCache ==
  /\ cleanups > 0
  /\ cleanups' = cleanups - 1
  /\ cacheFiles' = [h \in CacheKeys |-> IF cacheFiles[h].old THEN NoFile ELSE cacheFiles[h]]
  /\ UNCHANGED <<inFlight, downloaded, requests, requested, response>>
  /\ UNCHANGED <<playerVars, isLooping, migrationVars, pollVars>>

NextDownload ==
  \/ \E u \in Urls \cup {InvalidUrl} : PostRequest(u)
  \/ \E u \in Urls, ext \in AudioExts : DownloadSucceeds(u, ext)
  \/ \E u \in Urls : DownloadFails(u)
  \/ \E u \in Urls : DownloadTooLarge(u)
  \/ DayPasses
  \/ cleanupOldCache

SpecDownload == Init /\ [][NextDownload]_vars

\* ======================================================= progress polling
\* pollProgress of the page that starts a download job and polls it.

\* const maxAttempts = 120
maxAttempts == 120

\* Job statuses of the download queue, and a status the client does not
\* know ("processing" is what the POST response carries).
JobStatuses == {"queued", "downloading", "completed", "error", "processing"}

\* What a progress request can come back with: the fetch throws, the
\* response is not ok, or it is ok with a status and with or without an
\* audioUrl.
ProgressResponses ==
  {[kind |-> "throws", status |-> "error", audioUrl |-> FALSE],
   [kind |-> "notOk", status |-> "error", audioUrl |-> FALSE]}
  \cup [kind : {"ok"}, status : JobStatuses, audioUrl : BOOLEAN]

\* data.status === "completed" && data.audioUrl
IsCompleted(r) == r.status = "completed" /\ r.audioUrl

\* attempts < maxAttempts && (status === "queued" || status === "downloading")
PollsAgain(n, r) == n < maxAttempts /\ r.status \in {"queued", "downloading"}

\* handleFetchAudio, the POST answering with a jobId: pollProgress(jobId)
\* sends the first progress request.
StartPolling ==
  /\ ~loading
  /\ pollPhase \in {"idle", "stopped"}
  /\ loading' = TRUE
  /\ fetchError' = FALSE
  /\ attempts' = 0
  /\ polls' = 1
  /\ pollPhase' = "fetching"
  /\ UNCHANGED <<playerVars, isLooping, migrationVars, downloadVars>>

\* The progress request settles: the rest of poll().
ProgressResponse(r) ==
  /\ pollPhase = "fetching"
  /\ IF r.kind # "ok"
       THEN /\ fetchError' = TRUE
            /\ loading' = FALSE
            /\ pollPhase' = "stopped"
            /\ UNCHANGED attempts
       ELSE IF IsCompleted(r)
         THEN /\ loading' = FALSE
              /\ pollPhase' = "stopped"
              /\ UNCHANGED <<fetchError, attempts>>
         ELSE IF r.status = "error"
           THEN /\ fetchError' = TRUE
                /\ loading' = FALSE
                /\ pollPhase' = "stopped"
                /\ UNCHANGED attempts
           ELSE /\ attempts' = attempts + 1
                /\ IF PollsAgain(attempts', r)
                     THEN /\ pollPhase' = "scheduled"
                          /\ UNCHANGED <<loading, fetchError>>
                     ELSE IF attempts' >= maxAttempts
                       THEN /\ fetchError' = TRUE
                            /\ loading' = FALSE
                            /\ pollPhase' = "stopped"
                       ELSE /\ pollPhase' = "stopped"
                            /\ UNCHANGED <<loading, fetchError>>
  /\ UNCHANGED polls
  /\ UNCHANGED <<playerVars, isLooping, migrationVars, downloadVars>>

\* setTimeout(poll, 1000) fires: the next progress request is sent.
PollTimer ==
  /\ pollPhase = "scheduled"
  /\ pollPhase' = "fetching"
  /\ polls' = polls + 1
  /\ UNCHANGED <<loading, fetchError, attempts>>
  /\ UNCHANGED <<playerVars, isLooping, migrationVars, downloadVars>>

NextPoll ==
  \/ StartPolling
  \/ \E r \in ProgressResponses : ProgressResponse(r)
  \/ PollTimer

SpecPoll == Init /\ [][NextPoll]_vars

\* ------------------------------------------------------------------- C31
\* C31: while looping, when the region is adjusted (a step that changes the
\* bounds of the existing region: edge drag, nudge, Set A, Set B) so that the
\* playback position lies outside the new region (before its start or after
\* its end), playback jumps to the new region's start: in the adjusting step
\* itself or, at the latest, at the loop monitor's next tick.
C31_AdjustJumpsToStart ==
  [][(/\ currentRegion # NoRegion
      /\ currentRegion' # NoRegion
      /\ currentRegion'.id = currentRegion.id
      /\ currentRegion' # currentRegion
      /\ loopInterval
      /\ (time' < currentRegion'.start \/ time' > currentRegion'.end))
       => \/ lastSeek' # NoSeek /\ lastSeek'.to = currentRegion'.start
          \/ LoopTickSeek(time', currentRegionRef')
               = SeekTo("loop", currentRegion'.start)]_vars

\* ------------------------------------------------------------------- C32
\* C32: in the player with a loop toggle, looping is ON only while a region
\* exists: the toggle has no effect when there is no region, and every step
\* that clears, removes or replaces the region leaves looping OFF.
C32_LoopingOnlyWithRegion ==
  /\ [](isLooping => currentRegion # NoRegion)
  /\ [][(currentRegion = NoRegion /\ currentRegion' = NoRegion)
          => isLooping' = isLooping]_vars
  /\ [][(currentRegion # NoRegion /\ currentRegion'.id # currentRegion.id)
          => ~isLooping']_vars

\* Looping switched on again on a region that replaced another one while
\* playing, so the monitor runs.
C32_LoopingOnReplacedRegion ==
  isLooping /\ currentRegion.id = 2 /\ loopInterval

C34_CachedUrlIsNotDownloadedAgain ==
  [][\A u \in Urls :
       (/\ requests' = requests + 1
        /\ requested' = u
        /\ u \in downloaded
        /\ cacheFiles[generateCacheKey(u)].ext # "none")
       => /\ response' = [status |-> "ready", url |-> u, cached |-> TRUE]
          /\ inFlight' = inFlight
          /\ cleanups' = cleanups]_vars

\* A URL that was downloaded is requested again and answered from the cache
\* while the other URL is still being downloaded.
C34_SecondRequestFromCache ==
  /\ requests = 3
  /\ requested = 1
  /\ 1 \in downloaded
  /\ response = [status |-> "ready", url |-> 1, cached |-> TRUE]
  /\ inFlight[generateCacheKey(2)] = 1

\* ------------------------------------------------------------------- C35
\* C35: polling of a download job stops after at most 120 progress
\* requests, and whenever it has stopped (no request under way, no timer
\* set) the loading flag is false.
C35_StoppedPollingClearsLoading ==
  /\ polls <= maxAttempts
  /\ pollPhase = "stopped" => ~loading

\* ------------------------------------------------------------------- C36
\* C36: once each operation has settled the metronome is in one of three
\* states: metronomeActive and metronomeWasActive are never both true,
\* metronomeActive implies bpm > 0, and a metronome timer exists (exactly
\* one, held by the ref) if and only if metronomeActive is true.
C36_ThreeMetronomeStates ==
  /\ ~(metronomeActive /\ metronomeWasActive)
  /\ metronomeActive => bpm > 0
  /\ metronomeActive <=> metronomeTimers > 0
  /\ metronomeActive <=> metronomeInterval # 0
  /\ metronomeTimers <= 1

\* The metronome is on and its timer has been replaced after a change of
\* tempo.
C36_OnAfterRetime ==
  /\ metronomeActive /\ ~metronomeWasActive
  /\ metronomeTimers = 1
  /\ bpm = 70 /\ ~click

\* ------------------------------------------------------------------- C37
\* C37: whenever the guitar tab is shown, zoomLevel is at least 50 once the
\* effects have settled: showing the tab at a lower level, and zooming out or
\* moving the slider (to fit mode 0 as well) below 50 while it is shown,
\* leave zoomLevel at 50.
C37_TabKeepsZoomAtLeast50 ==
  /\ [](showGuitarTab => zoomLevel >= 50)
  /\ [][(ToggleGuitarTab /\ ~showGuitarTab /\ zoomLevel < 50) => zoomLevel' = 50]_vars
  /\ [][(handleZoomOut /\ showGuitarTab /\ zoomLevel <= 60) => zoomLevel' = 50]_vars
  /\ [][(\E z \in SliderValues : handleZoomChange(z) /\ z < 50) /\ showGuitarTab
          => zoomLevel' = 50]_vars

\* The tab is shown and the zoom level has been raised to 50 px per second;
\* the zoom effect's sync is still to come.
C37_TabShownAtFifty ==
  showGuitarTab /\ zoomLevel = 50 /\ zoomSyncTimeout

\* ---- C38
\* C38: every change of the tempo, offset or chord annotations of a saved
\* item is eventually in that item's stored record, also when another saved
\* item is loaded or a new song is started before the autosave timer fires;
\* and a pending autosave write always carries the id and the values of the
\* item on the page, so no item's data is written into another's record.
C38_EditsReachTheStoredRecord ==
  /\ (unsavedEdit # <<>>) ~> (unsavedEdit = <<>>)
  /\ [](autoSaveTimeout # <<>> =>
         autoSaveTimeout[1] = AutosaveUpdate(currentSavedId, pageBpm, pageOffset,
                                             pageNoteTrack))

\* ---- C39
\* C39: writing a tab cell and writing a chord cell are pure map updates.  A
\* write of text t to slot i < slotsPerBar of the tab entry (timestamp,
\* string) leaves that entry as an array of exactly slotsPerBar slots with t
\* in slot i, and every other tab entry and the whole chord map as they
\* were; a write of text t to the chord cell (timestamp, segment) puts t
\* under that key, and every other chord entry and the whole tab map stay
\* as they were.
C39_CellWritesAreMapUpdates ==
  [][/\ \A k \in TabKeys, i \in TabSlots, t \in AnnotationTabTexts :
          (TabCellChange(k, i, t) /\ i < getSlotsPerBar)
            => /\ Len(tabData'[k]) = getSlotsPerBar
               /\ tabData'[k][i + 1] = t
               /\ \A o \in TabKeys \ {k} : tabData'[o] = tabData[o]
               /\ notes' = notes
     /\ \A k \in AnnotationChordKeys, t \in AnnotationChordTexts :
          handleNoteChange(k, t)
            => /\ DOMAIN notes' = DOMAIN notes \cup {k}
               /\ notes'[k] = t
               /\ \A o \in DOMAIN notes \ {k} : notes'[o] = notes[o]
               /\ tabData' = tabData]_vars

\* The chord map holds two chords, one of them under another segment of the
\* same bar, and a tab entry of 16 slots was written at slot 5 while another
\* string of the same bar already held a 4-slot entry.
C39_BothMapsWritten ==
  /\ DOMAIN notes = {<<0, 0>>, <<0, 1>>}
  /\ notes[<<0, 0>>] = "G" /\ notes[<<0, 1>>] = "G"
  /\ getSlotsPerBar = 16
  /\ Len(tabData[<<0, 0>>]) = 4 /\ tabData[<<0, 0>>][4] = <<"1", "2">>
  /\ Len(tabData[<<0, 5>>]) = 16 /\ tabData[<<0, 5>>][6] = <<"1", "2">>

\* ---- C40
\* C40: tab annotations survive a save/load round trip: when the map the
\* player gave its parent is supplied back as initial tab data under the same
\* time signature, the player shows the text that was stored when the map was
\* emitted at every (bar, string, slot).
C40_TabSurvivesRoundTrip ==
  (restoredTabData # <<>> /\ restoredTabData[1].beatsPerBar = restoredTabData[1].of.beatsPerBar)
    => \A k \in TabKeys, i \in 0..(getSlotsPerBar - 1) :
         getTabNote(restoredTabData[1].data, k, i) = getTabNote(restoredTabData[1].of.from, k, i)
====
